---------------------------- MODULE Spec2Model ----------------------------
(***************************************************************************)
(* Knowledge AI MCP - Portable Edition.                                    *)
(*                                                                         *)
(* Two cooperating subsystems are modelled:                                *)
(*   - the MCP server (index.js): the CallTool router, the five tool       *)
(*     handlers and BaseHandler.apiRequest (one fetch per request);        *)
(*   - the client (client.js): apiRequest with its retry loop and the      *)
(*     webhook receiver that re-emits POSTed envelopes as events.          *)
(*                                                                         *)
(* Strings that the code only compares or copies are kept as strings.      *)
(* An Error is a record [msg, detail]: msg is the fixed part of the        *)
(* message text and detail the set of variable parts that occur in it      *)
(* (key names, the tool name, the status code, words of the remote body),  *)
(* so that message.includes(w) is  w \in detail.                           *)
(***************************************************************************)
EXTENDS Integers, Sequences, FiniteSets, TLC

VARIABLES
    \* ---- server (index.js) ----
    apiKey,          \* this.config.apiKey
    cfgProjectId,    \* this.config.projectId
    currentProject,  \* this.currentProject
    constructed,     \* the constructor returned (did not throw)
    srvpc,           \* "idle" | "fetch": position of the CallTool handler
    call,            \* the CallTool request being handled
    remoteFails,     \* remote API: attempts it will still fail
    remoteBody,      \* remote API: the 2xx body it answers once it succeeds
    netlog,          \* requests fetch() was called with during this CallTool
    handled,         \* handlers whose handleTool ran during this CallTool
    response,        \* the last CallTool response
    reply,           \* the ListTools / ListResources / ReadResource in hand
    \* ---- client (client.js) ----
    retries,         \* this.config.http.retries
    hookEnabled,     \* this.config.webhook.enabled
    throwing,        \* event names with a registered listener that throws
    connected,       \* this.connected
    webhookServer,   \* this.webhookServer: "null", or the state of that server
    webhookUrl,      \* this.webhookUrl: "null" or the receiver's URL
    bound,           \* http servers of this client that are listening
    op,              \* the client call the application awaits
    api,             \* the apiRequest call in progress (its local variables)
    lifeEvents,      \* 'connected' / 'disconnected' / 'error' events of op
    hook,            \* the webhook request being handled
    clientApiKey,    \* this.config.apiKey of the client
    clientProjectId, \* this.config.projectId of the client
    hooksSent,       \* <<method, url>> of the /api/webhooks requests sent
    webhookPath,     \* this.config.webhook.path of the client
    webhookSecret,   \* this.config.webhook.secret of the client
    notes            \* remote API: the notes it stores, as <<project, id>>

srvVars == <<apiKey, cfgProjectId, currentProject, constructed, srvpc, call,
             remoteFails, remoteBody, netlog, handled, response, reply>>

cliVars == <<retries, hookEnabled, throwing, connected, webhookServer,
             webhookUrl, bound, op, api, lifeEvents, hook, clientApiKey,
             clientProjectId, hooksSent, webhookPath, webhookSecret, notes>>

vars == <<srvVars, cliVars>>

Undefined == "undefined"
NoArgs == [defined |-> FALSE, obj |-> <<>>]   \* request.params.arguments omitted

Range(s) == {s[i] : i \in 1..Len(s)}


(***************************************************************************)
(* Strings the code takes apart (the credential, a project id) are         *)
(* sequences of tokens: "-" is the dash, any other token a non-empty run   *)
(* of other characters.  <<>> is the empty string; the code only tests     *)
(* configuration values for truthiness, so <<>> also stands for a value    *)
(* that is not set.                                                        *)
(***************************************************************************)
Dash == "-"
Truthy(s) == s # <<>>

\* s.split('-'): the parts between the dashes, each again a token sequence
RECURSIVE SplitDash(_)
SplitDash(s) ==
    IF \A i \in 1..Len(s) : s[i] # Dash
    THEN <<s>>
    ELSE LET i == CHOOSE j \in 1..Len(s) :
                      s[j] = Dash /\ \A m \in 1..(j-1) : s[m] # Dash
         IN  <<SubSeq(s, 1, i-1)>> \o SplitDash(SubSeq(s, i+1, Len(s)))

\* PortableKnowledgeAiMcpServer.extractProjectFromApiKey
extractProjectFromApiKey(key) ==
    IF ~Truthy(key) THEN <<>>
    ELSE LET parts == SplitDash(key)
         IN  IF Len(parts) >= 3 THEN parts[2] ELSE <<>>

\* constructor: this.currentProject = config.projectId || extractProjectFromApiKey()
ResolveProject_CredentialFirst(pid, key) ==
    IF Truthy(extractProjectFromApiKey(key))
    THEN extractProjectFromApiKey(key) ELSE pid

ResolveProject(pid, key) ==
    IF Truthy(pid) THEN pid ELSE extractProjectFromApiKey(key)

(***************************************************************************)
(* The tool catalogs: this.tools of each handler, and the handlers in the  *)
(* order the server's constructor registers them.                          *)
(***************************************************************************)
NoteTools == <<"list_notes", "get_note", "create_note", "update_note",
               "delete_note", "generate_contexts", "get_context_stats",
               "inspect_content", "preview_update", "validate_update",
               "suggest_patterns">>
SearchTools == <<"search", "graph_search">>
ProjectTools == <<"list_projects", "get_project_info", "get_current_context">>
StatsTools == <<"get_project_stats", "get_system_stats", "get_usage_stats",
                "get_folder_stats">>
CrossReferenceTools == <<"add_wikilink", "remove_wikilink",
                         "get_note_connections", "suggest_connections",
                         "validate_note_links", "get_knowledge_base_health">>

Handlers == <<"note", "search", "project", "stats", "crossReference">>

ToolsOf_NoteLacksSuggest(h) ==
    CASE h = "note" -> SubSeq(NoteTools, 1, Len(NoteTools) - 1)
      [] h = "search" -> SearchTools
      [] h = "project" -> ProjectTools
      [] h = "stats" -> StatsTools
      [] h = "crossReference" -> CrossReferenceTools

\* this.tools of each provider
ToolsOf(h) ==
    CASE h = "note" -> NoteTools
      [] h = "search" -> SearchTools
      [] h = "project" -> ProjectTools
      [] h = "stats" -> StatsTools
      [] h = "crossReference" -> CrossReferenceTools

\* handler.canHandleTool(toolName): this.tools.includes(toolName)
canHandleTool(h, name) == name \in Range(ToolsOf(h))

\* the router's scan: the first handler, in registration order, that owns name
HasOwner(name) == \E i \in 1..Len(Handlers) : canHandleTool(Handlers[i], name)
Owner(name) ==
    Handlers[CHOOSE i \in 1..Len(Handlers) :
                 /\ canHandleTool(Handlers[i], name)
                 /\ \A j \in 1..(i-1) : ~canHandleTool(Handlers[j], name)]

\* inputSchema.required of each tool, as getTools() declares it
SchemaRequired(name) ==
    CASE name \in {"get_note", "update_note", "delete_note", "inspect_content"}
             -> <<"id">>
      [] name = "create_note" -> <<"title", "content">>
      [] name \in {"preview_update", "validate_update"}
             -> <<"id", "old_str", "new_str">>
      [] name = "suggest_patterns" -> <<"id", "pattern">>
      [] name = "get_folder_stats" -> <<"folder">>
      [] name \in {"search", "graph_search"} -> <<"query">>
      [] name \in {"add_wikilink", "remove_wikilink"}
             -> <<"noteId", "targetNoteId">>
      [] name \in {"get_note_connections", "suggest_connections",
                   "validate_note_links"} -> <<"noteId">>
      [] OTHER -> <<>>

(***************************************************************************)
(* Errors, results and the steps of an async tool method.                  *)
(***************************************************************************)
Err(msg, detail) == [msg |-> msg, detail |-> detail]
NoErr == Err("", {})
Includes(e, w) == w \in e.detail       \* error.message.includes(w)

\* reading a property of undefined / calling a missing method
TypeErrorReading(prop) == Err("Cannot read properties of undefined", {prop})
NotAFunction(what) == Err("is not a function", {what})

\* a tool result before JSON.stringify: fields are the keys of the object
Result(success, data, err, tool, fields) ==
    [success |-> success, data |-> data, error |-> err, tool |-> tool,
     fields |-> fields]
NoResult == Result(FALSE, Undefined, NoErr, Undefined, {})

\* BaseHandler.formatSuccess(data, message)
formatSuccess(data) ==
    Result(TRUE, data, NoErr, Undefined,
           {"success", "data", "message", "timestamp"})

\* the object literals { success: true, data, message, ..., timestamp }
SuccessLiteral(data, more) ==
    Result(TRUE, data, NoErr, Undefined,
           {"success", "data", "message", "timestamp"} \cup more)

\* BaseHandler.formatError(error, tool)
formatError(e, tool) ==
    Result(FALSE, Undefined, e, tool,
           {"success", "error", "tool", "timestamp"})

(***************************************************************************)
(* request.params.arguments: [defined, obj].  defined = FALSE is a request *)
(* that carries no arguments (the handlers then get undefined); obj maps   *)
(* the keys that are present to their values.                              *)
(***************************************************************************)
WithArgs(obj) == [defined |-> TRUE, obj |-> obj]
Has(params, k) == k \in DOMAIN params.obj               \* k in params
Get(params, k) == IF Has(params, k) THEN params.obj[k] ELSE Undefined
Given(params, k) == Get(params, k) # Undefined          \* params[k] !== undefined

\* BaseHandler.validateParams(params, required): the error it throws, or NoErr
validateParams(params, required) ==
    IF required = <<>> THEN NoErr
    ELSE IF ~params.defined
    THEN Err("Cannot use 'in' operator to search in undefined", {required[1]})
    ELSE LET missing == {k \in Range(required) :
                             ~Has(params, k) \/ Get(params, k) = Undefined}
         IN  IF missing # {}
             THEN Err("Missing required parameters", missing)
             ELSE NoErr

(***************************************************************************)
(* The remote API, as one fetch() sees it.  A failed attempt is a network  *)
(* error or a non-2xx status whose body may hold a word the handlers look  *)
(* for; a 2xx answer has one of the body kinds:                            *)
(*   json_data    JSON object whose data is an object with every field     *)
(*   json_list    JSON object whose data is an array                       *)
(*   json_nodata  JSON object without a data field                         *)
(*   text         content type other than application/json                 *)
(*   badjson      content type application/json, body does not parse       *)
(***************************************************************************)
FailKinds == {"network", "404", "500", "500:embedding", "500:graph"}
BodyKinds == {"json_data", "json_list", "json_nodata", "text", "badjson"}

Ok(body) == [ok |-> TRUE, body |-> body, err |-> NoErr]
Failed(e) == [ok |-> FALSE, body |-> Undefined, err |-> e]

\* BaseHandler.apiRequest after its single fetch: the value it returns, or
\* the error it throws
HandlerApiResult(failKind, body) ==
    CASE failKind = "network" -> Failed(Err("Failed to connect to API", {}))
      [] failKind = "404" -> Failed(Err("API request failed", {"404"}))
      [] failKind = "500" -> Failed(Err("API request failed", {"500"}))
      [] failKind = "500:embedding"
             -> Failed(Err("API request failed", {"500", "embedding"}))
      [] failKind = "500:graph"
             -> Failed(Err("API request failed", {"500", "graph"}))
      [] failKind = "none" /\ body = "badjson"
             -> Failed(Err("SyntaxError: Unexpected token", {}))
      [] OTHER -> Ok(body)

\* result.data of a value apiRequest returned
DataOf(body) ==
    CASE body = "json_data" -> "remote-data"
      [] body = "json_list" -> "remote-list"
      [] OTHER -> Undefined

(***************************************************************************)
(* A step of an async tool method, up to its next await of apiRequest:     *)
(*   ret    it returned a result;  throw  it threw;  reject  handleTool's  *)
(*   promise rejected;  fetch  it awaits apiRequest(req), to go on at      *)
(*   stage.                                                                *)
(***************************************************************************)
Req(method, path, project, body) ==
    [method |-> method, path |-> path, project |-> project, body |-> body]
NoReq == Req("", "", <<>>, {})

Ret(r) == [k |-> "ret", result |-> r, err |-> NoErr, req |-> NoReq, stage |-> ""]
Throw(e) == [k |-> "throw", result |-> NoResult, err |-> e, req |-> NoReq, stage |-> ""]
Reject(e) == [k |-> "reject", result |-> NoResult, err |-> e, req |-> NoReq, stage |-> ""]
Fetch(req, stage) ==
    [k |-> "fetch", result |-> NoResult, err |-> NoErr, req |-> req, stage |-> stage]


\* after "const result = await this.apiRequest(...)": a failed call throws on
Await(res, onOk) == IF ~res.ok THEN Throw(res.err) ELSE onOk
\* result.data.<prop> (or a destructuring of result.data) throws without data
WithData(res, prop, onOk) ==
    IF DataOf(res.body) = Undefined THEN Throw(TypeErrorReading(prop)) ELSE onOk
\* the first statements of a method: validateParams, then the request
Validate(params, required, next) ==
    LET e == validateParams(params, required)
    IN  IF e # NoErr THEN Throw(e) ELSE next

\* params.projectId || context.currentProject
ProjectOf(params, ctxProject) ==
    IF Given(params, "projectId") THEN <<Get(params, "projectId")>> ELSE ctxProject

\* ResponseBuilder has success, error and textResponse; the handlers call
\* this.responseBuilder.buildResponse(...), which is undefined
buildResponse == Throw(NotAFunction("this.responseBuilder.buildResponse"))

(***************************************************************************)
(* NoteHandler's tool methods.  stage "start" is the call, stage "result"  *)
(* the continuation after apiRequest settled with res.                     *)
(***************************************************************************)
listNotes(proj, params, stage, res) ==
    IF stage = "start"
    THEN Fetch(Req("GET", "/notes", proj, {}), "result")
    ELSE Await(res, IF res.body = "json_list"
                    THEN buildResponse
                    ELSE Ret(formatSuccess(DataOf(res.body))))

getNote(proj, params, stage, res) ==
    IF stage = "start"
    THEN Validate(params, <<"id">>,
                  Fetch(Req("GET", "/notes/:id", proj, {}), "result"))
    ELSE Await(res, buildResponse)

createNote(proj, params, stage, res) ==
    IF stage = "start"
    THEN Validate(params, <<"title", "content">>,
                  Fetch(Req("POST", "/notes", proj,
                            {"title", "content", "tags", "virtual_folder",
                             "project_id", "created_by"}), "result"))
    ELSE Await(res, buildResponse)

updateNote(proj, params, stage, res) ==
    LET content == Given(params, "old_str") /\ Given(params, "new_str")
        meta == {k \in {"title", "tags", "virtual_folder"} : Given(params, k)}
    IN  IF stage = "start"
        THEN Validate(params, <<"id">>,
                 IF content
                 THEN Fetch(Req("PATCH", "/notes/:id", proj,
                                {"old_str", "new_str", "changed_by"}), "result")
                 ELSE IF meta = {}
                 THEN Throw(Err("No updates specified", {}))
                 ELSE Fetch(Req("PUT", "/notes/:id", proj,
                                meta \cup {"changed_by"}), "result"))
        ELSE Await(res, IF content /\ Get(params, "preview") = "true"
                        THEN Ret(SuccessLiteral(DataOf(res.body), {"preview"}))
                        ELSE buildResponse)

deleteNote(proj, params, stage, res) ==
    IF stage = "start"
    THEN Validate(params, <<"id">>,
                  Fetch(Req("DELETE", "/notes/:id", proj, {"deleted_by"}), "result"))
    ELSE Await(res, Ret(formatSuccess("remote-body")))

generateContexts(proj, params, stage, res) ==
    IF stage = "start"
    THEN Fetch(Req("POST", "/notes/contexts/generate", proj,
                   {"batch_size", "force_regenerate"}), "result")
    ELSE Await(res, WithData(res, "processed", Ret(formatSuccess("remote-body"))))

getContextStats(proj, params, stage, res) ==
    IF stage = "start"
    THEN Fetch(Req("GET", "/notes/contexts/stats", proj, {}), "result")
    ELSE Await(res, Ret(formatSuccess("remote-body")))

inspectContent(proj, params, stage, res) ==
    IF stage = "start"
    THEN Validate(params, <<"id">>,
                  Fetch(Req("GET", "/notes/:id/content/inspect", proj, {}), "result"))
    ELSE Await(res, Ret(SuccessLiteral(DataOf(res.body), {})))

previewUpdate(proj, params, stage, res) ==
    IF stage = "start"
    THEN Validate(params, <<"id", "old_str", "new_str">>,
                  Fetch(Req("POST", "/notes/:id/content/preview", proj,
                            {"old_str", "new_str"}), "result"))
    ELSE Await(res, WithData(res, "wouldSucceed",
                 Ret(SuccessLiteral(DataOf(res.body), {"wouldSucceed"}))))

validateUpdate(proj, params, stage, res) ==
    IF stage = "start"
    THEN Validate(params, <<"id", "old_str", "new_str">>,
                  Fetch(Req("POST", "/notes/:id/content/validate", proj,
                            {"old_str", "new_str"}), "result"))
    ELSE Await(res, WithData(res, "isValid",
                 Ret(SuccessLiteral(DataOf(res.body), {"isValid"}))))

suggestPatterns(proj, params, stage, res) ==
    IF stage = "start"
    THEN Validate(params, <<"id", "pattern">>,
                  Fetch(Req("POST", "/notes/:id/content/suggest", proj,
                            {"pattern", "threshold"}), "result"))
    ELSE Await(res, WithData(res, "count",
                 Ret(SuccessLiteral(DataOf(res.body), {"suggestions"}))))

\* a method's throw, caught by handleTool's catch: return this.formatError(...)
Caught(step, toolName) ==
    IF step.k = "throw" THEN Ret(formatError(step.err, toolName)) ELSE step

\* NoteHandler.handleTool
NoteHandleTool(toolName, params, ctxProject, stage, res) ==
    IF ~params.defined
    THEN Reject(TypeErrorReading("projectId"))
    ELSE LET proj == ProjectOf(params, ctxProject)
         IN  Caught(
               CASE toolName = "list_notes" -> listNotes(proj, params, stage, res)
                 [] toolName = "get_note" -> getNote(proj, params, stage, res)
                 [] toolName = "create_note" -> createNote(proj, params, stage, res)
                 [] toolName = "update_note" -> updateNote(proj, params, stage, res)
                 [] toolName = "delete_note" -> deleteNote(proj, params, stage, res)
                 [] toolName = "generate_contexts"
                        -> generateContexts(proj, params, stage, res)
                 [] toolName = "get_context_stats"
                        -> getContextStats(proj, params, stage, res)
                 [] toolName = "inspect_content"
                        -> inspectContent(proj, params, stage, res)
                 [] toolName = "preview_update"
                        -> previewUpdate(proj, params, stage, res)
                 [] toolName = "validate_update"
                        -> validateUpdate(proj, params, stage, res)
                 [] toolName = "suggest_patterns"
                        -> suggestPatterns(proj, params, stage, res)
                 [] OTHER -> Throw(Err("Unknown tool", {toolName})),
               toolName)


(***************************************************************************)
(* SearchHandler.  stage "fallback" is the continuation of the nested      *)
(* this.search(projectId, {...params, mode: 'keyword'}) call.              *)
(***************************************************************************)
SearchReq(proj) == Req("GET", "/notes/search", proj, {})

\* search() called with mode 'keyword', after its apiRequest settled: its
\* catch rethrows, since mode is neither 'semantic' nor 'hybrid'
KeywordSearchResult(res) == Await(res, Ret(formatSuccess(DataOf(res.body))))

search_KeywordFallsBack(proj, params, stage, res) ==
    LET mode == IF Given(params, "mode") THEN Get(params, "mode") ELSE "keyword"
        degraded == Includes(res.err, "embedding") \/ Includes(res.err, "ChromaDB")
    IN  CASE stage = "start"
               -> Validate(params, <<"query">>, Fetch(SearchReq(proj), "result"))
          [] stage = "result"
               -> IF res.ok THEN Ret(formatSuccess(DataOf(res.body)))
                  ELSE IF degraded
                  THEN IF mode = "semantic" THEN Ret(formatSuccess("no-results"))
                       ELSE IF mode = "hybrid" THEN Fetch(SearchReq(proj), "fallback")
                       ELSE Throw(res.err)
                  ELSE Throw(res.err)
          [] OTHER -> IF ~res.ok /\ degraded
                      THEN Fetch(SearchReq(proj), "fallback")
                      ELSE KeywordSearchResult(res)

\* SearchHandler.search: the first request, its catch, and the keyword
\* search a hybrid search falls back to
search(proj, params, stage, res) ==
    LET mode == IF Given(params, "mode") THEN Get(params, "mode") ELSE "keyword"
    IN  CASE stage = "start"
               -> Validate(params, <<"query">>, Fetch(SearchReq(proj), "result"))
          [] stage = "result"
               -> IF res.ok THEN Ret(formatSuccess(DataOf(res.body)))
                  ELSE IF Includes(res.err, "embedding") \/ Includes(res.err, "ChromaDB")
                  THEN IF mode = "semantic" THEN Ret(formatSuccess("no-results"))
                       ELSE IF mode = "hybrid" THEN Fetch(SearchReq(proj), "fallback")
                       ELSE Throw(res.err)
                  ELSE Throw(res.err)
          [] OTHER -> KeywordSearchResult(res)

graphSearch(proj, params, stage, res) ==
    CASE stage = "start"
           -> Validate(params, <<"query">>,
                       Fetch(Req("GET", "/search/graph", proj, {}), "result"))
      [] stage = "result"
           -> IF res.ok THEN Ret(formatSuccess(DataOf(res.body)))
              ELSE IF Includes(res.err, "graph") \/ Includes(res.err, "relationship")
              THEN Fetch(SearchReq(proj), "fallback")
              ELSE Throw(res.err)
      [] OTHER -> KeywordSearchResult(res)

\* SearchHandler.handleTool
SearchHandleTool(toolName, params, ctxProject, stage, res) ==
    IF ~params.defined
    THEN Reject(TypeErrorReading("projectId"))
    ELSE LET proj == ProjectOf(params, ctxProject)
         IN  Caught(
               CASE toolName = "search" -> search(proj, params, stage, res)
                 [] toolName = "graph_search" -> graphSearch(proj, params, stage, res)
                 [] OTHER -> Throw(Err("Unknown tool", {toolName})),
               toolName)

(***************************************************************************)
(* ProjectHandler and StatsHandler: handleTool has no statement before its *)
(* try, so reading a property of undefined params is caught.               *)
(***************************************************************************)
\* params.<prop> at the head of a method
ReadParams(params, prop, next) ==
    IF ~params.defined THEN Throw(TypeErrorReading(prop)) ELSE next

\* try { apiRequest } catch: a message that includes '404' gives a success
\* result built locally, any other error is thrown on
Or404(res) ==
    IF res.ok THEN Ret(formatSuccess("remote-body"))
    ELSE IF Includes(res.err, "404") THEN Ret(formatSuccess("local"))
    ELSE Throw(res.err)

listProjects(params) == Ret(formatSuccess("local"))

getProjectInfo(params, ctxProject, stage, res) ==
    IF stage = "start"
    THEN ReadParams(params, "projectId",
             Fetch(Req("GET", "/stats", ProjectOf(params, ctxProject), {}), "result"))
    ELSE Or404(res)

\* getProjectInfo({projectId: context.currentProject}) inside try/catch:
\* whatever it does, a success result is returned
getCurrentContext(ctxProject, stage, res) ==
    IF stage = "start"
    THEN Fetch(Req("GET", "/stats", ctxProject, {}), "result")
    ELSE Ret(formatSuccess("local"))

\* ProjectHandler.handleTool
ProjectHandleTool(toolName, params, ctxProject, stage, res) ==
    Caught(
      CASE toolName = "list_projects" -> listProjects(params)
        [] toolName = "get_project_info"
               -> getProjectInfo(params, ctxProject, stage, res)
        [] toolName = "get_current_context"
               -> getCurrentContext(ctxProject, stage, res)
        [] OTHER -> Throw(Err("Unknown tool", {toolName})),
      toolName)

getProjectStats(params, ctxProject, stage, res) ==
    IF stage = "start"
    THEN ReadParams(params, "projectId",
             Fetch(Req("GET", "/stats", ProjectOf(params, ctxProject), {}), "result"))
    ELSE Await(res, Ret(formatSuccess("remote-body")))

getSystemStats(params, stage, res) ==
    IF stage = "start"
    THEN ReadParams(params, "include_project_breakdown",
             Fetch(Req("GET", "/api/stats", <<>>, {}), "result"))
    ELSE Or404(res)

getUsageStats(params, ctxProject, stage, res) ==
    IF stage = "start"
    THEN ReadParams(params, "projectId",
             Fetch(Req("GET", "/usage/stats", ProjectOf(params, ctxProject), {}),
                   "result"))
    ELSE Or404(res)

getFolderStats(params, ctxProject, stage, res) ==
    IF stage = "start"
    THEN Validate(params, <<"folder">>,
             Fetch(Req("GET", "/folders/:folder/stats",
                       ProjectOf(params, ctxProject), {}), "result"))
    ELSE Or404(res)

\* StatsHandler.handleTool
StatsHandleTool(toolName, params, ctxProject, stage, res) ==
    Caught(
      CASE toolName = "get_project_stats"
               -> getProjectStats(params, ctxProject, stage, res)
        [] toolName = "get_system_stats" -> getSystemStats(params, stage, res)
        [] toolName = "get_usage_stats"
               -> getUsageStats(params, ctxProject, stage, res)
        [] toolName = "get_folder_stats"
               -> getFolderStats(params, ctxProject, stage, res)
        [] OTHER -> Throw(Err("Unknown tool", {toolName})),
      toolName)

(***************************************************************************)
(* CrossReferenceHandler                                                   *)
(***************************************************************************)
addWikilink(proj, params, stage, res) ==
    IF stage = "start"
    THEN Validate(params, <<"noteId", "targetNoteId">>,
             Fetch(Req("POST", "/notes/:id/links", proj,
                       {"target_note_id", "bidirectional"}), "result"))
    ELSE Await(res, Ret(formatSuccess(DataOf(res.body))))

removeWikilink(proj, params, stage, res) ==
    IF stage = "start"
    THEN Validate(params, <<"noteId", "targetNoteId">>,
             Fetch(Req("DELETE", "/notes/:id/links/:target", proj, {}), "result"))
    ELSE Await(res, Ret(formatSuccess(DataOf(res.body))))

getNoteConnections(proj, params, stage, res) ==
    IF stage = "start"
    THEN Validate(params, <<"noteId">>,
             Fetch(Req("GET", "/notes/:id/connections", proj, {}), "result"))
    ELSE Await(res, WithData(res, "forwardLinks",
                                Ret(formatSuccess(DataOf(res.body)))))

suggestConnections(proj, params, stage, res) ==
    IF stage = "start"
    THEN Validate(params, <<"noteId">>,
             Fetch(Req("POST", "/notes/:id/connections/suggest", proj,
                       {"max_suggestions", "include_reasons"}), "result"))
    ELSE Await(res, WithData(res, "suggestions",
                                Ret(formatSuccess(DataOf(res.body)))))

validateNoteLinks(proj, params, stage, res) ==
    IF stage = "start"
    THEN Validate(params, <<"noteId">>,
             Fetch(Req("GET", "/notes/:id/links/validate", proj, {}), "result"))
    ELSE Await(res, WithData(res, "validLinks",
                                Ret(formatSuccess(DataOf(res.body)))))

getKnowledgeBaseHealth(proj, params, stage, res) ==
    IF stage = "start"
    THEN Fetch(Req("GET", "/health/links", proj, {}), "result")
    ELSE Await(res, WithData(res, "overview",
                                Ret(formatSuccess(DataOf(res.body)))))

\* CrossReferenceHandler.handleTool
CrossReferenceHandleTool(toolName, params, ctxProject, stage, res) ==
    IF ~params.defined
    THEN Reject(TypeErrorReading("projectId"))
    ELSE LET proj == ProjectOf(params, ctxProject)
         IN  Caught(
               CASE toolName = "add_wikilink" -> addWikilink(proj, params, stage, res)
                 [] toolName = "remove_wikilink"
                        -> removeWikilink(proj, params, stage, res)
                 [] toolName = "get_note_connections"
                        -> getNoteConnections(proj, params, stage, res)
                 [] toolName = "suggest_connections"
                        -> suggestConnections(proj, params, stage, res)
                 [] toolName = "validate_note_links"
                        -> validateNoteLinks(proj, params, stage, res)
                 [] toolName = "get_knowledge_base_health"
                        -> getKnowledgeBaseHealth(proj, params, stage, res)
                 [] OTHER -> Throw(Err("Unknown tool", {toolName})),
               toolName)

\* handler.handleTool(name, args, {currentProject}), by handler
handleTool(h, toolName, params, ctxProject, stage, res) ==
    CASE h = "note" -> NoteHandleTool(toolName, params, ctxProject, stage, res)
      [] h = "search" -> SearchHandleTool(toolName, params, ctxProject, stage, res)
      [] h = "project" -> ProjectHandleTool(toolName, params, ctxProject, stage, res)
      [] h = "stats" -> StatsHandleTool(toolName, params, ctxProject, stage, res)
      [] h = "crossReference"
             -> CrossReferenceHandleTool(toolName, params, ctxProject, stage, res)


(***************************************************************************)
(* The CallTool request handler of the server (the router).                *)
(***************************************************************************)
\* JSON.stringify(result): a key whose value is undefined is left out
Stringify(r) ==
    [r EXCEPT !.fields = @ \ ( (IF r.data = Undefined THEN {"data"} ELSE {})
                               \cup (IF r.tool = Undefined THEN {"tool"} ELSE {}) )]

\* a CallTool response: content[0].text is text; isError is the flag
Envelope(isError, text) == [isError |-> isError, text |-> text]
NoResponse == Envelope(FALSE, NoResult)

\* return { content: [{type:'text', text: JSON.stringify(result)}] }
RouterSuccess(result) == Envelope(FALSE, Stringify(result))

\* a catch block that leaves the tool name out of the body
RouterError_NoTool(e, name) ==
    Envelope(TRUE, Stringify(Result(FALSE, Undefined, e, Undefined,
                                    {"error", "tool", "timestamp"})))

\* the catch block: { content: [{text: {error, tool, timestamp}}], isError: true }
RouterError(e, name) ==
    Envelope(TRUE, Stringify(Result(FALSE, Undefined, e, name,
                                    {"error", "tool", "timestamp"})))

\* BaseHandler.apiRequest: the headers of its fetch.  No tool method passes
\* options.headers.
HandlerHeaders(key) ==
    {"Content-Type"} \cup (IF Truthy(key) THEN {"X-API-Key"} ELSE {})

\* BaseHandler.apiRequest: what fetch() is called with for a request
HandlerFetchOptions(req, key) ==
    [method |-> req.method, path |-> req.path, project |-> req.project,
     body |-> req.body, headers |-> HandlerHeaders(key)]

\* getSystemHealth: the headers of its fetch of /health
getSystemHealthHeaders == {"X-API-Key", "User-Agent"}

NoCall == [name |-> "", params |-> NoArgs, handler |-> "", stage |-> "",
           fails |-> 0]

Settle_RejectionAsResult(c, step) ==
    /\ call' = [c EXCEPT !.stage = step.stage]
    /\ CASE step.k = "fetch"
              -> /\ srvpc' = "fetch"
                 /\ netlog' = Append(netlog, HandlerFetchOptions(step.req, apiKey))
                 /\ response' = NoResponse
         [] step.k = "ret"
              -> /\ srvpc' = "done"
                 /\ netlog' = netlog
                 /\ response' = RouterSuccess(step.result)
         [] OTHER
              -> /\ srvpc' = "done"
                 /\ netlog' = netlog
                 /\ response' = RouterSuccess(formatError(step.err, c.name))

\* what the router does with a step of the handler it awaits: c is the
\* request, its handler and the attempts the remote API fails for it
Settle(c, step) ==
    /\ call' = [c EXCEPT !.stage = step.stage]
    /\ CASE step.k = "fetch"
              -> /\ srvpc' = "fetch"
                 /\ netlog' = Append(netlog, HandlerFetchOptions(step.req, apiKey))
                 /\ response' = NoResponse
         [] step.k = "ret"
              -> /\ srvpc' = "done"
                 /\ netlog' = netlog
                 /\ response' = RouterSuccess(step.result)
         [] OTHER
              -> /\ srvpc' = "done"
                 /\ netlog' = netlog
                 /\ response' = RouterError(step.err, c.name)

(***************************************************************************)
(* Bounds and inputs of the server model.                                  *)
(***************************************************************************)
MaxFails == 2        \* attempts the remote API may fail for one CallTool

ToolNames == UNION {Range(ToolsOf(Handlers[i])) : i \in 1..Len(Handlers)}
UnknownTools == {"get_notes", "frobnicate", ""}

\* the argument keys the model varies for a tool, and the values of a key
KeysFor(name) ==
    Range(SchemaRequired(name))
      \cup (IF name \in {"get_note", "delete_note", "get_project_info",
                         "get_project_stats", "search"}
            THEN {"projectId"} ELSE {})
      \cup (IF name = "update_note" THEN {"old_str", "new_str", "title", "preview"}
            ELSE {})
      \cup (IF name = "search" THEN {"mode"} ELSE {})

ValuesOf(name, k) ==
    CASE k = "projectId" -> {"other"}
      [] k = "mode" -> {"keyword", "semantic", "hybrid"}
      [] k = "preview" -> {"true", "false"}
      [] k \in Range(SchemaRequired(name)) -> {"v", Undefined}
      [] OTHER -> {"v"}

AllValues == {"other", "keyword", "semantic", "hybrid", "true", "false", "v", Undefined}

\* every arguments value a CallTool request for a tool may carry
ArgumentsFor ==
    [name \in ToolNames \cup UnknownTools |->
        {NoArgs} \cup
        {WithArgs(obj) : obj \in UNION {
            {f \in [K -> AllValues] : \A k \in K : f[k] \in ValuesOf(name, k)} :
            K \in SUBSET KeysFor(name)}}]

\* the credentials and explicit project ids the server is constructed with
ApiKeys == { <<>>,
             <<"nodash">>,
             <<"role", "-", "proj">>,
             <<"employee", "-", "myproject", "-", "secret123">>,
             <<"hr", "-", "test", "-", "project", "-", "3saML26ipBq91vNz">> }
ProjectIds == { <<>>, <<"explicit">> }

(***************************************************************************)
(* ListTools, ListResources and ReadResource (index.js).                   *)
(***************************************************************************)
\* the names of the tool definitions each provider's getTools() returns
NoteToolDefinitions ==
    <<"list_notes", "get_note", "create_note", "update_note", "delete_note",
      "generate_contexts", "get_context_stats", "inspect_content",
      "preview_update", "validate_update", "suggest_patterns">>
SearchToolDefinitions == <<"search", "graph_search">>
ProjectToolDefinitions ==
    <<"list_projects", "get_project_info", "get_current_context">>
StatsToolDefinitions ==
    <<"get_project_stats", "get_system_stats", "get_usage_stats",
      "get_folder_stats">>
CrossReferenceToolDefinitions ==
    <<"add_wikilink", "remove_wikilink", "get_note_connections",
      "suggest_connections", "validate_note_links",
      "get_knowledge_base_health">>

getTools_SearchRepeatsNote(h) ==
    CASE h = "note" -> NoteToolDefinitions
      [] h = "search" -> SearchToolDefinitions \o <<"list_notes">>
      [] h = "project" -> ProjectToolDefinitions
      [] h = "stats" -> StatsToolDefinitions
      [] h = "crossReference" -> CrossReferenceToolDefinitions

getTools(h) ==
    CASE h = "note" -> NoteToolDefinitions
      [] h = "search" -> SearchToolDefinitions
      [] h = "project" -> ProjectToolDefinitions
      [] h = "stats" -> StatsToolDefinitions
      [] h = "crossReference" -> CrossReferenceToolDefinitions

\* tools.push(...handler.getTools()) over Object.values(this.handlers), from
\* the i-th provider on
RECURSIVE PushTools(_)
PushTools(i) ==
    IF i > Len(Handlers) THEN <<>>
    ELSE getTools(Handlers[i]) \o PushTools(i + 1)

\* the JSON text of a resource, by the fields the model keeps
NoText == [kind |-> "none", status |-> "", accessible |-> FALSE,
           project |-> <<>>, detail |-> {}]
JsonText(kind, project) ==
    [kind |-> kind, status |-> "", accessible |-> FALSE, project |-> project,
     detail |-> {}]

NoReply == [req |-> "", uri |-> "", thrower |-> "none", ok |-> FALSE,
            tools |-> <<>>, text |-> NoText, error |-> NoErr, probes |-> 0,
            outcome |-> ""]

\* what the ListTools handler does when getTools() of provider thrower
\* throws ("none": no provider throws): the loop has no try, the handler
\* rejects with the provider's error
listTools(thrower) ==
    IF thrower = "none"
    THEN [NoReply EXCEPT !.req = "ListTools", !.ok = TRUE,
                         !.tools = PushTools(1)]
    ELSE [NoReply EXCEPT !.req = "ListTools", !.thrower = thrower,
                         !.ok = FALSE,
                         !.error = Err("getTools threw", {thrower})]

\* the resources ListResources returns, by uri
ResourceUris == <<"knowledge://project/current", "knowledge://system/health",
                  "knowledge://portable/info">>

\* getSystemHealth() after its single fetch of /health settled: the value
\* it returns (it catches every error)
HealthOutcomes == {"2xx", "non2xx", "network"}

getSystemHealth_NetworkErrorEscapes(outcome, project) ==
    CASE outcome = "2xx"
           -> [threw |-> FALSE,
               value |-> [kind |-> "health", status |-> "healthy",
                          accessible |-> TRUE, project |-> project,
                          detail |-> {}]]
      [] outcome = "non2xx"
           -> [threw |-> FALSE,
               value |-> [kind |-> "health", status |-> "degraded",
                          accessible |-> FALSE, project |-> project,
                          detail |-> {"API returned"}]]
      [] OTHER
           -> [threw |-> TRUE, value |-> NoText]

getSystemHealth(outcome, project) ==
    CASE outcome = "2xx"
           -> [threw |-> FALSE,
               value |-> [kind |-> "health", status |-> "healthy",
                          accessible |-> TRUE, project |-> project,
                          detail |-> {}]]
      [] outcome = "non2xx"
           -> [threw |-> FALSE,
               value |-> [kind |-> "health", status |-> "degraded",
                          accessible |-> FALSE, project |-> project,
                          detail |-> {"API returned"}]]
      [] OTHER
           -> [threw |-> FALSE,
               value |-> [kind |-> "health", status |-> "degraded",
                          accessible |-> FALSE, project |-> project,
                          detail |-> {"fetch failed"}]]

\* the switch of the ReadResource handler up to its return, its throw or
\* its await of getSystemHealth()
readResource_DefaultsToInfo(uri, project) ==
    CASE uri = "knowledge://project/current"
           -> [k |-> "ret", text |-> JsonText("project", project), err |-> NoErr]
      [] uri = "knowledge://system/health"
           -> [k |-> "probe", text |-> NoText, err |-> NoErr]
      [] OTHER
           -> [k |-> "ret", text |-> JsonText("info", project), err |-> NoErr]

readResource(uri, project) ==
    CASE uri = "knowledge://project/current"
           -> [k |-> "ret", text |-> JsonText("project", project), err |-> NoErr]
      [] uri = "knowledge://system/health"
           -> [k |-> "probe", text |-> NoText, err |-> NoErr]
      [] uri = "knowledge://portable/info"
           -> [k |-> "ret", text |-> JsonText("info", project), err |-> NoErr]
      [] OTHER
           -> [k |-> "throw", text |-> NoText,
               err |-> Err("Failed to read resource", {uri, "Unknown resource"})]

\* the uris the model reads, and the provider whose getTools() throws
ReadUris == Range(ResourceUris)
          \cup {"knowledge://project/other", "knowledge://system/health/", ""}
Throwers == {"none"} \cup Range(Handlers)

WebhookPath == "/webhook"        \* config.webhook.path

\* the client at rest: no call awaited, no apiRequest in progress, no
\* webhook request being handled
NoOp == [kind |-> "none", pc |-> ""]
IdleApi == [pc |-> "idle", endpoint |-> "", method |-> "", headers |-> {},
            attempt |-> 0, fetches |-> 0, fails |-> 0, failsLeft |-> 0,
            waits |-> <<>>, error |-> ""]

\* no parsed JSON value; a request body JSON.parse rejects
NoValue == [kind |-> "none", event |-> Undefined, data |-> Undefined]

Garbage == [wellFormed |-> FALSE, value |-> NoValue]


\* inBackoff: the request arrived while an apiRequest waited to retry
\* signed: the request carries a proof of the shared secret
NoHook == [stage |-> "idle", method |-> "", url |-> "", body |-> Garbage,
           events |-> <<>>, status |-> 0, reply |-> "", inBackoff |-> FALSE,
           signed |-> FALSE]

\* the server's process holds no client
ClientParked ==
    /\ retries = 0
    /\ hookEnabled = FALSE
    /\ throwing = {}
    /\ connected = FALSE
    /\ webhookServer = "null"
    /\ webhookUrl = 0
    /\ bound = 0
    /\ op = NoOp
    /\ api = IdleApi
    /\ lifeEvents = <<>>
    /\ hook = NoHook
    /\ clientApiKey = <<>>
    /\ clientProjectId = <<>>
    /\ hooksSent = {}
    /\ webhookPath = WebhookPath
    /\ webhookSecret = Undefined
    /\ notes = {}

(***************************************************************************)
(* Server: state after the constructor, and the CallTool handler, which    *)
(* runs from the request to its first await and from each await to the     *)
(* next.                                                                   *)
(***************************************************************************)
ServerInit ==
    /\ apiKey \in ApiKeys
    /\ cfgProjectId \in ProjectIds
    /\ currentProject = ResolveProject(cfgProjectId, apiKey)
    /\ constructed = Truthy(currentProject)
    /\ srvpc = "idle"
    /\ call = NoCall
    /\ remoteFails = 0
    /\ remoteBody = "json_data"
    /\ netlog = <<>>
    /\ handled = <<>>
    /\ response = NoResponse
    /\ reply = NoReply
    /\ ClientParked

CallTool_AdoptsRequestProject(name, params) ==
    /\ constructed
    /\ srvpc = "idle"
    /\ remoteFails' \in 0..MaxFails
    /\ remoteBody' \in BodyKinds
    /\ IF HasOwner(name)
       THEN LET h == Owner(name)
                c == [name |-> name, params |-> params, handler |-> h,
                      stage |-> "start", fails |-> remoteFails']
            IN  /\ handled' = <<h>>
                /\ Settle(c, handleTool(h, name, params, currentProject,
                                        "start", Ok(Undefined)))
       ELSE /\ handled' = <<>>
            /\ call' = [name |-> name, params |-> params, handler |-> "",
                        stage |-> "", fails |-> remoteFails']
            /\ srvpc' = "done"
            /\ netlog' = netlog
            /\ response' = RouterError(Err("Unknown tool", {name}), name)
    /\ currentProject' = ProjectOf(params, currentProject)
    /\ UNCHANGED <<apiKey, cfgProjectId, constructed, reply, cliVars>>

\* setRequestHandler(CallToolRequestSchema, ...): from the request to the
\* first await of a fetch, or to the response
CallTool(name, params) ==
    /\ constructed
    /\ srvpc = "idle"
    /\ remoteFails' \in 0..MaxFails
    /\ remoteBody' \in BodyKinds
    /\ IF HasOwner(name)
       THEN LET h == Owner(name)
                c == [name |-> name, params |-> params, handler |-> h,
                      stage |-> "start", fails |-> remoteFails']
            IN  /\ handled' = <<h>>
                /\ Settle(c, handleTool(h, name, params, currentProject,
                                        "start", Ok(Undefined)))
       ELSE /\ handled' = <<>>
            /\ call' = [name |-> name, params |-> params, handler |-> "",
                        stage |-> "", fails |-> remoteFails']
            /\ srvpc' = "done"
            /\ netlog' = netlog
            /\ response' = RouterError(Err("Unknown tool", {name}), name)
    /\ UNCHANGED <<apiKey, cfgProjectId, currentProject, constructed, reply,
                   cliVars>>

\* the awaited fetch settles and the handler runs on
FetchSettles ==
    /\ srvpc = "fetch"
    /\ \E failKind \in FailKinds :
         LET res == IF remoteFails > 0
                    THEN HandlerApiResult(failKind, Undefined)
                    ELSE HandlerApiResult("none", remoteBody)
         IN  Settle(call, handleTool(call.handler, call.name, call.params,
                                     currentProject, call.stage, res))
    /\ remoteFails' = IF remoteFails > 0 THEN remoteFails - 1 ELSE 0
    /\ UNCHANGED <<apiKey, cfgProjectId, currentProject, constructed,
                   remoteBody, handled, reply, cliVars>>

\* the SDK sends the envelope the handler returned; the next request starts
\* from a handler that holds nothing of this one
SendResponse ==
    /\ srvpc \in {"done", "replied"}
    /\ srvpc' = "idle"
    /\ call' = NoCall
    /\ netlog' = <<>>
    /\ handled' = <<>>
    /\ response' = NoResponse
    /\ reply' = NoReply
    /\ remoteFails' = 0
    /\ remoteBody' = "json_data"
    /\ UNCHANGED <<apiKey, cfgProjectId, currentProject, constructed, cliVars>>

\* setRequestHandler(ListToolsRequestSchema, ...)
ListTools(thrower) ==
    /\ constructed
    /\ srvpc = "idle"
    /\ srvpc' = "replied"
    /\ reply' = listTools(thrower)
    /\ UNCHANGED <<apiKey, cfgProjectId, currentProject, constructed, call,
                   remoteFails, remoteBody, netlog, handled, response,
                   cliVars>>

\* setRequestHandler(ListResourcesRequestSchema, ...)
ListResources ==
    /\ constructed
    /\ srvpc = "idle"
    /\ srvpc' = "replied"
    /\ reply' = [NoReply EXCEPT !.req = "ListResources", !.ok = TRUE,
                                !.tools = ResourceUris]
    /\ UNCHANGED <<apiKey, cfgProjectId, currentProject, constructed, call,
                   remoteFails, remoteBody, netlog, handled, response,
                   cliVars>>

\* setRequestHandler(ReadResourceRequestSchema, ...): from the request to
\* the reply, or to the await of the fetch of /health
ReadResource(uri) ==
    /\ constructed
    /\ srvpc = "idle"
    /\ LET r == readResource(uri, currentProject)
           q == [NoReply EXCEPT !.req = "ReadResource", !.uri = uri]
       IN  CASE r.k = "ret"
                  -> /\ srvpc' = "replied"
                     /\ reply' = [q EXCEPT !.ok = TRUE, !.text = r.text]
             [] r.k = "throw"
                  -> /\ srvpc' = "replied"
                     /\ reply' = [q EXCEPT !.ok = FALSE, !.error = r.err]
             [] OTHER
                  -> /\ srvpc' = "probe"
                     /\ reply' = [q EXCEPT !.probes = 1]
    /\ UNCHANGED <<apiKey, cfgProjectId, currentProject, constructed, call,
                   remoteFails, remoteBody, netlog, handled, response,
                   cliVars>>

\* the fetch of /health settles; getSystemHealth() returns and the
\* ReadResource handler with it
HealthSettles ==
    /\ srvpc = "probe"
    /\ \E outcome \in HealthOutcomes :
         LET h == getSystemHealth(outcome, currentProject)
         IN  reply' = IF h.threw
                      THEN [reply EXCEPT !.ok = FALSE, !.outcome = outcome,
                              !.error = Err("Failed to read resource",
                                            {reply.uri})]
                      ELSE [reply EXCEPT !.ok = TRUE, !.outcome = outcome,
                              !.text = h.value]
    /\ srvpc' = "replied"
    /\ UNCHANGED <<apiKey, cfgProjectId, currentProject, constructed, call,
                   remoteFails, remoteBody, netlog, handled, response,
                   cliVars>>

\* the remote API accepts the connection and never answers: fetch() is
\* called without a signal or a timeout, its promise stays pending
FetchNeverSettles ==
    /\ srvpc \in {"fetch", "probe"}
    /\ srvpc' = "pending"
    /\ UNCHANGED <<apiKey, cfgProjectId, currentProject, constructed, call,
                   remoteFails, remoteBody, netlog, handled, response, reply,
                   cliVars>>

ServerNext ==
    \/ \E name \in ToolNames \cup UnknownTools :
         \E params \in ArgumentsFor[name] : CallTool(name, params)
    \/ FetchSettles
    \/ SendResponse
    \/ \E thrower \in Throwers : ListTools(thrower)
    \/ ListResources
    \/ \E uri \in ReadUris : ReadResource(uri)
    \/ HealthSettles
    \/ FetchNeverSettles


(***************************************************************************)
(* The client (client.js).  The application awaits each client call, as    *)
(* test-client.js does: op is the call in progress.  Webhook requests      *)
(* arrive and are handled while a call is in progress.                     *)
(***************************************************************************)
MaxRetries == 2      \* largest config.http.retries the model is built with
MaxConnects == 2     \* webhook servers one client may have listening
RetryDelay == 1000   \* config.http.retryDelay
DefaultRetries == 3  \* config.http.retries

ClientFailKinds == {"network", "4xx", "5xx"}

\* the options argument of apiRequest: its method, and whether it has a
\* headers member of its own (then with the header names OwnHeaders)
Options(method) == [method |-> method, ownHeaders |-> FALSE]
OptionsWithHeaders(method) == [method |-> method, ownHeaders |-> TRUE]
OwnHeaders == {"Accept"}

\* fetchOptions.headers: { method, headers: {...}, timeout, ...options }, where
\* a headers member of options replaces the headers object
ClientHeaders(options) ==
    IF options.ownHeaders THEN OwnHeaders
    ELSE {"Content-Type", "X-API-Key", "User-Agent"}

\* apiRequest(endpoint, options) up to its first await: attempt = 0, the
\* loop condition attempt <= retries, then fetch(url, fetchOptions).  k is
\* the number of attempts the remote endpoint fails before it answers 2xx.
apiRequestStart(endpoint, options, k) ==
    IF 0 <= retries
    THEN [pc |-> "fetch", endpoint |-> endpoint, method |-> options.method,
          headers |-> ClientHeaders(options),
          attempt |-> 0, fetches |-> 1, fails |-> k, failsLeft |-> k,
          waits |-> <<>>, error |-> ""]
    ELSE [IdleApi EXCEPT !.pc = "returned", !.endpoint = endpoint,
                           !.method = options.method]

\* a catch block that gives up one attempt early
apiRequestCatch_GivesUpEarly(a, error) ==
    LET n == a.attempt + 1
    IN  IF n >= retries
        THEN [a EXCEPT !.attempt = n, !.pc = "threw", !.error = error]
        ELSE [a EXCEPT !.attempt = n, !.pc = "backoff", !.error = error,
                       !.waits = Append(@, RetryDelay * n)]

\* a catch block that waits the base delay before every retry
apiRequestCatch_FixedDelay(a, error) ==
    LET n == a.attempt + 1
    IN  IF n > retries
        THEN [a EXCEPT !.attempt = n, !.pc = "threw", !.error = error]
        ELSE [a EXCEPT !.attempt = n, !.pc = "backoff", !.error = error,
                       !.waits = Append(@, RetryDelay)]

\* the catch block of the retry loop, with the error the try block threw
apiRequestCatch(a, error) ==
    LET n == a.attempt + 1
    IN  IF n > retries
        THEN [a EXCEPT !.attempt = n, !.pc = "threw", !.error = error]
        ELSE [a EXCEPT !.attempt = n, !.pc = "backoff", !.error = error,
                       !.waits = Append(@, RetryDelay * n)]

\* the awaited fetch settled with outcome: "ok" is a 2xx response, which is
\* returned; "network" is a rejected fetch; "4xx" and "5xx" are responses
\* whose ok is false, for which the try block throws HTTP <status>
apiRequestSettle(a, outcome) ==
    CASE outcome = "ok" -> [a EXCEPT !.pc = "returned"]
      [] outcome = "network" -> apiRequestCatch(a, "fetch failed")
      [] OTHER -> apiRequestCatch(a, "HTTP " \o outcome)

\* the backoff timer fired: the loop condition, then the next fetch
apiRequestWake(a) ==
    IF a.attempt <= retries
    THEN [a EXCEPT !.pc = "fetch", !.fetches = @ + 1]
    ELSE [a EXCEPT !.pc = "returned"]

ApiSettled == api.pc \in {"returned", "threw"}

\* apiRequest returned without an iteration of its loop: its value is
\* undefined, and reading response.ok or response.text() of it throws
ReturnedUndefined(a) == a.pc = "returned" /\ a.fetches = 0

\* the remote API stores notes per project: what it holds after it accepted
\* the request of the call o (a note created gets the id o.id, a note
\* deleted is the one at the project and id of the path)
RemoteStore(store, o) ==
    IF o.kind # "request" THEN store
    ELSE CASE o.call = "createNote" -> store \cup {<<o.project, o.id>>}
           [] o.call = "deleteNote" -> store \ {<<o.project, o.id>>}
           [] OTHER -> store

\* fetch() of the apiRequest in progress settles
ApiFetchSettles ==
    /\ api.pc = "fetch"
    /\ \E kind \in ClientFailKinds :
         IF api.failsLeft > 0
         THEN /\ api' = apiRequestSettle([api EXCEPT !.failsLeft = @ - 1], kind)
              /\ notes' = notes
         ELSE /\ api' = apiRequestSettle(api, "ok")
              /\ notes' = RemoteStore(notes, op)
    /\ UNCHANGED <<retries, hookEnabled, throwing, connected, webhookServer,
                   webhookUrl, bound, op, lifeEvents, hook, clientApiKey,
                   clientProjectId, hooksSent, webhookPath, webhookSecret,
                   srvVars>>

\* the remote API never answers the attempt in progress.  fetchOptions
\* carries timeout: config.http.timeout, a member fetch() does not read, and
\* no AbortSignal or timer of the client ends the attempt: it stays pending.
RemoteNeverAnswers ==
    /\ api.pc = "fetch"
    /\ api' = [api EXCEPT !.pc = "pending"]
    /\ UNCHANGED <<retries, hookEnabled, throwing, connected, webhookServer,
                   webhookUrl, bound, op, lifeEvents, hook, clientApiKey,
                   clientProjectId, hooksSent, webhookPath, webhookSecret,
                   notes, srvVars>>

\* the setTimeout of the retry backoff fires
ApiTimerFires ==
    /\ api.pc = "backoff"
    /\ api' = apiRequestWake(api)
    /\ UNCHANGED <<retries, hookEnabled, throwing, connected, webhookServer,
                   webhookUrl, bound, op, lifeEvents, hook, clientApiKey,
                   clientProjectId, hooksSent, webhookPath, webhookSecret,
                   notes, srvVars>>

\* the value a call returned, or the error it threw
Returned(v) == [ok |-> TRUE, value |-> v, error |-> ""]
Threw(msg) == [ok |-> FALSE, value |-> <<>>, error |-> msg]

\* apiKey.indexOf('-') and apiKey.lastIndexOf('-'), counted from 1
IndexOfDash(key) ==
    CHOOSE j \in 1..Len(key) : key[j] = Dash /\ \A m \in 1..(j-1) : key[m] # Dash
LastIndexOfDash(key) ==
    CHOOSE j \in 1..Len(key) :
        key[j] = Dash /\ \A m \in (j+1)..Len(key) : key[m] # Dash

\* KnowledgeAiMcpClient.getProjectFromApiKey
getProjectFromApiKey(pid, key) ==
    IF Truthy(pid) THEN Returned(pid)
    ELSE IF ~Truthy(key) THEN Threw("No API key configured")
    ELSE LET parts == SplitDash(key)
         IN  IF Len(parts) >= 3
             THEN LET firstDashIndex == IndexOfDash(key)
                      lastDashIndex == LastIndexOfDash(key)
                  IN  IF firstDashIndex # lastDashIndex
                      THEN Returned(SubSeq(key, firstDashIndex + 1,
                                           lastDashIndex - 1))
                      ELSE Returned(parts[2])
             ELSE Returned(<<"default">>)

\* KnowledgeAiMcpClient.parseJsonResponse on a 2xx response whose body is of
\* kind body: response.text() is parsed whatever the content type is; the
\* error of a body that does not parse carries the text
NoOutcome == [ok |-> FALSE, value |-> Undefined, error |-> "", detail |-> {}]

parseJsonResponse(body) ==
    IF body \in {"json_data", "json_list", "json_nodata"}
    THEN [ok |-> TRUE, value |-> body, error |-> "", detail |-> {}]
    ELSE [ok |-> FALSE, value |-> Undefined,
          error |-> "Invalid JSON response", detail |-> {body}]

\* the application calls listNotes() (the other note / search / stats
\* methods alike): the project is resolved, then this.apiRequest(...) awaited
AppRequest(k) ==
    /\ op = NoOp
    /\ LET p == getProjectFromApiKey(clientProjectId, clientApiKey)
       IN  IF p.ok
           THEN /\ op' = [kind |-> "request", pc |-> "await",
                          project |-> p.value, body |-> "",
                          parsed |-> NoOutcome, result |-> NoOutcome,
                          call |-> "listNotes", id |-> 0]
                /\ api' = apiRequestStart("/api/projects/:id/notes", Options("GET"), k)
           ELSE /\ op' = [kind |-> "request", pc |-> "rejected",
                          project |-> <<>>, body |-> "",
                          parsed |-> NoOutcome, result |-> NoOutcome,
                          call |-> "listNotes", id |-> 0]
                /\ api' = IdleApi
    /\ lifeEvents' = <<>>
    /\ UNCHANGED <<retries, hookEnabled, throwing, connected, webhookServer,
                   webhookUrl, bound, hook, clientApiKey,
                   clientProjectId, hooksSent, webhookPath, webhookSecret,
                   notes, srvVars>>

\* the note methods the application calls without a projectId argument,
\* the request each sends and the project each puts in the path
MaxNotes == 2        \* ids the remote API assigns to created notes
NoteCalls == {"createNote", "getNote", "deleteNote", "listNotes", "search"}

NoteRequest(m) ==
    CASE m = "createNote" -> [endpoint |-> "/api/projects/:id/notes", method |-> "POST"]
      [] m = "getNote" -> [endpoint |-> "/api/projects/:id/notes/:id", method |-> "GET"]
      [] m = "deleteNote" -> [endpoint |-> "/api/projects/:id/notes/:id", method |-> "DELETE"]
      [] m = "listNotes" -> [endpoint |-> "/api/projects/:id/notes", method |-> "GET"]
      [] m = "search" -> [endpoint |-> "/api/projects/:id/notes/search", method |-> "GET"]

ProjectForCall_GetNoteUsesDefault(m) ==
    IF m = "getNote" THEN Returned(<<"default">>)
    ELSE getProjectFromApiKey(clientProjectId, clientApiKey)

ProjectForCall(m) == getProjectFromApiKey(clientProjectId, clientApiKey)

\* the application calls the note method m up to the await of its
\* apiRequest.  id is the note of getNote and deleteNote, and for
\* createNote the id the remote API gives the new note; the remote API
\* answers 404 for a note the project of the path does not hold.
NoteCall(m, id) ==
    /\ op = NoOp
    /\ m = "createNote" => \A n \in notes : n[2] # id
    /\ LET p == ProjectForCall(m)
           q == NoteRequest(m)
       IN  IF p.ok
           THEN /\ op' = [kind |-> "request", pc |-> "await",
                          project |-> p.value, body |-> "",
                          parsed |-> NoOutcome, result |-> NoOutcome,
                          call |-> m, id |-> id]
                /\ api' = apiRequestStart(q.endpoint, Options(q.method),
                             IF m \in {"getNote", "deleteNote"}
                                /\ <<p.value, id>> \notin notes
                             THEN retries + 1 ELSE 0)
           ELSE /\ op' = [kind |-> "request", pc |-> "rejected",
                          project |-> <<>>, body |-> "",
                          parsed |-> NoOutcome, result |-> NoOutcome,
                          call |-> m, id |-> id]
                /\ api' = IdleApi
    /\ lifeEvents' = <<>>
    /\ UNCHANGED <<retries, hookEnabled, throwing, connected, webhookServer,
                   webhookUrl, bound, hook, clientApiKey,
                   clientProjectId, hooksSent, webhookPath, webhookSecret,
                   notes, srvVars>>

\* the application calls apiRequest(endpoint, options) itself, with headers
\* of its own in options
AppApiRequest(k) ==
    /\ op = NoOp
    /\ op' = [kind |-> "apiRequest", pc |-> "await"]
    /\ api' = apiRequestStart("/api/projects", OptionsWithHeaders("GET"), k)
    /\ lifeEvents' = <<>>
    /\ UNCHANGED <<retries, hookEnabled, throwing, connected, webhookServer,
                   webhookUrl, bound, hook, clientApiKey,
                   clientProjectId, hooksSent, webhookPath, webhookSecret,
                   notes, srvVars>>

\* connect(): up to the await of testConnection()'s apiRequest('/health')
Connect(k) ==
    /\ op = NoOp
    /\ bound < MaxConnects
    /\ op' = [kind |-> "connect", pc |-> "health"]
    /\ api' = apiRequestStart("/health", Options("GET"), k)
    /\ lifeEvents' = <<>>
    /\ UNCHANGED <<retries, hookEnabled, throwing, connected, webhookServer,
                   webhookUrl, bound, hook, clientApiKey,
                   clientProjectId, hooksSent, webhookPath, webhookSecret,
                   notes, srvVars>>

\* connect() after testConnection(): the catch block when it threw; else
\* setupWebhookReceiver() up to the await of listen(), or, with the webhook
\* disabled, the end of connect()
ConnectHealthSettled ==
    /\ op = [kind |-> "connect", pc |-> "health"]
    /\ ApiSettled
    /\ IF api.pc = "threw" \/ ReturnedUndefined(api)
       THEN /\ lifeEvents' = Append(lifeEvents, "error")
            /\ op' = [op EXCEPT !.pc = "rejected"]
            /\ UNCHANGED <<connected, webhookServer>>
       ELSE IF hookEnabled
       THEN /\ webhookServer' = "starting"
            /\ op' = [op EXCEPT !.pc = "listen"]
            /\ UNCHANGED <<connected, lifeEvents>>
       ELSE /\ connected' = TRUE
            /\ lifeEvents' = Append(lifeEvents, "connected")
            /\ op' = [op EXCEPT !.pc = "resolved"]
            /\ UNCHANGED webhookServer
    /\ UNCHANGED <<retries, hookEnabled, throwing, webhookUrl, bound, api,
                   hook, clientApiKey,
                   clientProjectId, hooksSent, webhookPath, webhookSecret,
                   notes, srvVars>>

\* the listen() callback: setupWebhookReceiver() records the URL, then
\* registerWebhook() up to the await of its apiRequest
ListenCallback(k) ==
    /\ op = [kind |-> "connect", pc |-> "listen"]
    /\ webhookServer' = "listening"
    /\ bound' = bound + 1
    /\ webhookUrl' = bound + 1
    /\ api' = apiRequestStart("/api/webhooks", Options("POST"), k)
    /\ hooksSent' = hooksSent \cup {<<"POST", webhookUrl'>>}
    /\ op' = [op EXCEPT !.pc = "register"]
    /\ UNCHANGED <<retries, hookEnabled, throwing, connected, lifeEvents,
                   hook, clientApiKey, clientProjectId, webhookPath, webhookSecret,
                   notes, srvVars>>

\* a registerWebhook() that lets the failure of its request through
ConnectRegisterSettled_Rethrows ==
    /\ op = [kind |-> "connect", pc |-> "register"]
    /\ ApiSettled
    /\ IF api.pc = "threw"
       THEN /\ lifeEvents' = Append(lifeEvents, "error")
            /\ op' = [op EXCEPT !.pc = "rejected"]
            /\ UNCHANGED connected
       ELSE /\ connected' = TRUE
            /\ lifeEvents' = Append(lifeEvents, "connected")
            /\ op' = [op EXCEPT !.pc = "resolved"]
    /\ UNCHANGED <<retries, hookEnabled, throwing, webhookServer, webhookUrl,
                   bound, api, hook, clientApiKey, clientProjectId, hooksSent,
                   webhookPath, webhookSecret,
                   notes, srvVars>>

\* registerWebhook() returned (its catch swallows a failure): connect() ends
ConnectRegisterSettled ==
    /\ op = [kind |-> "connect", pc |-> "register"]
    /\ ApiSettled
    /\ connected' = TRUE
    /\ lifeEvents' = Append(lifeEvents, "connected")
    /\ op' = [op EXCEPT !.pc = "resolved"]
    /\ UNCHANGED <<retries, hookEnabled, throwing, webhookServer, webhookUrl,
                   bound, api, hook, clientApiKey,
                   clientProjectId, hooksSent, webhookPath, webhookSecret,
                   notes, srvVars>>

\* disconnect(): close the server, then unregisterWebhook() up to the await
\* of its apiRequest, or, without a webhookUrl, the end of disconnect().
\* closeCalled: this.webhookServer.close() was called.
Disconnect(k) ==
    /\ op = NoOp
    /\ webhookServer' = IF webhookServer = "null" THEN "null" ELSE "closed"
    /\ bound' = IF webhookServer = "listening" THEN bound - 1 ELSE bound
    /\ IF webhookUrl # 0
       THEN /\ api' = apiRequestStart("/api/webhooks", Options("DELETE"), k)
            /\ hooksSent' = hooksSent \cup {<<"DELETE", webhookUrl>>}
            /\ op' = [kind |-> "disconnect", pc |-> "unregister",
                      closeCalled |-> webhookServer # "null"]
            /\ lifeEvents' = <<>>
            /\ UNCHANGED connected
       ELSE /\ connected' = FALSE
            /\ lifeEvents' = <<"disconnected">>
            /\ op' = [kind |-> "disconnect", pc |-> "resolved",
                      closeCalled |-> webhookServer # "null"]
            /\ UNCHANGED <<api, hooksSent>>
    /\ UNCHANGED <<retries, hookEnabled, throwing, webhookUrl, hook,
                   clientApiKey, clientProjectId, webhookPath, webhookSecret,
                   notes, srvVars>>

\* unregisterWebhook() returned (its catch swallows a failure)
DisconnectUnregisterSettled ==
    /\ op.kind = "disconnect" /\ op.pc = "unregister"
    /\ ApiSettled
    /\ connected' = FALSE
    /\ lifeEvents' = Append(lifeEvents, "disconnected")
    /\ op' = [op EXCEPT !.pc = "resolved"]
    /\ UNCHANGED <<retries, hookEnabled, throwing, webhookServer, webhookUrl,
                   bound, api, hook, clientApiKey,
                   clientProjectId, hooksSent, webhookPath, webhookSecret,
                   notes, srvVars>>

\* what a note method returns of the parsed response: result.success for
\* deleteNote, result.data for the others
ResultMember(m, body) ==
    IF m = "deleteNote" THEN "remote-success" ELSE DataOf(body)

\* a note method after its apiRequest settled: the error of apiRequest goes
\* to the caller; a response is parsed and a member of it returned
RequestSettles ==
    /\ op.kind = "request"
    /\ op.pc = "await"
    /\ ApiSettled
    /\ IF api.pc = "threw" \/ ReturnedUndefined(api)
       THEN op' = [op EXCEPT !.pc = "settled",
                     !.result = [NoOutcome EXCEPT !.error = api.error]]
       ELSE \E body \in BodyKinds :
              LET r == parseJsonResponse(body)
              IN  op' = [op EXCEPT !.pc = "settled", !.body = body,
                           !.parsed = r,
                           !.result = IF r.ok
                                      THEN [r EXCEPT !.value =
                                              ResultMember(op.call, r.value)]
                                      ELSE r]
    /\ UNCHANGED <<retries, hookEnabled, throwing, connected, webhookServer,
                   webhookUrl, bound, api, lifeEvents, hook, clientApiKey,
                   clientProjectId, hooksSent, webhookPath, webhookSecret,
                   notes, srvVars>>

\* the awaited client call settles and the application goes on
OpReturns ==
    /\ \/ op.pc \in {"resolved", "rejected", "settled"}
       \/ op.kind = "apiRequest" /\ ApiSettled
    /\ op' = NoOp
    /\ api' = IdleApi
    /\ lifeEvents' = <<>>
    /\ UNCHANGED <<retries, hookEnabled, throwing, connected, webhookServer,
                   webhookUrl, bound, hook, clientApiKey,
                   clientProjectId, hooksSent, webhookPath, webhookSecret,
                   notes, srvVars>>

(***************************************************************************)
(* The webhook receiver.  A request body is [wellFormed, value]: the text  *)
(* of a JSON value, or text that JSON.parse rejects.  A JSON value is      *)
(* [kind, event, data]: an object with its event and data members          *)
(* (Undefined when it has none), or the literal null, or a number.         *)
(***************************************************************************)
JsonObject(event, data) == [kind |-> "object", event |-> event, data |-> data]
JsonNull == [kind |-> "null", event |-> Undefined, data |-> Undefined]
JsonNumber == [kind |-> "number", event |-> Undefined, data |-> Undefined]

Text(value) == [wellFormed |-> TRUE, value |-> value]

RecognizedEvents == {"created", "updated", "deleted"}

Bodies ==
    {Text(JsonObject(e, "note")) : e \in RecognizedEvents \cup {"archived", Undefined}}
      \cup {Text(JsonObject("created", Undefined)),
            Text(JsonNull), Text(JsonNumber), Garbage}

\* an emitted event: its name, its argument
Event(name, data, envelope) == [name |-> name, data |-> data, envelope |-> envelope]

\* the switch of handleWebhook: the event name of a recognized kind
DomainEvent(kind) ==
    CASE kind = "created" -> "noteCreated"
      [] kind = "updated" -> "noteUpdated"
      [] kind = "deleted" -> "noteDeleted"
      [] OTHER -> Undefined

\* what handling a request made of it: the events emitted, the status and
\* the body of the response
Handled(events, status, body) == [events |-> events, status |-> status, body |-> body]

\* an 'end' callback that answers before it parses
handleWebhookEnd_AnswersFirst(body, throws) ==
    Handled(<<>>, 200, "success")

\* the 'end' callback of handleWebhook.  this.emit calls the listeners
\* synchronously, so a listener that throws throws out of emit, into the
\* catch block.
handleWebhookEnd(body, throws) ==
    IF ~body.wellFormed
    THEN Handled(<<>>, 400, "")                  \* JSON.parse threw
    ELSE LET data == body.value
         IN  IF data.kind = "null"
             THEN Handled(<<>>, 400, "")         \* data.event: TypeError
             ELSE
             LET name == DomainEvent(data.event)
                 first == IF name = Undefined THEN <<>>
                          ELSE <<Event(name, data.data, NoValue)>>
             IN  IF name # Undefined /\ name \in throws
                 THEN Handled(first, 400, "")
                 ELSE LET all == Append(first,
                                   Event("webhookReceived", Undefined, data))
                      IN  IF "webhookReceived" \in throws
                          THEN Handled(all, 400, "")
                          ELSE Handled(all, 200, "success")

\* a listener that routes by the path alone
IsWebhookPost_AnyMethod(method, url) == url = webhookPath

\* req.method === 'POST' && req.url === this.config.webhook.path
IsWebhookPost(method, url) == method = "POST" /\ url = webhookPath

\* whether a request proves knowledge of the secret; without a secret
\* configured no request does
Signatures == IF webhookSecret = Undefined THEN {FALSE} ELSE BOOLEAN

\* the request listener of createServer: handleWebhook for a POST to the
\* configured path, which waits for the body; 404 for anything else, whose
\* body is never read
HookRequest(method, url, body) ==
    /\ bound > 0
    /\ hook.stage = "idle"
    /\ IF IsWebhookPost(method, url)
       THEN \E signed \in Signatures :
              hook' = [NoHook EXCEPT !.stage = "receiving", !.method = method,
                                     !.url = url, !.body = body,
                                     !.inBackoff = (api.pc = "backoff"),
                                     !.signed = signed]
       ELSE hook' = [NoHook EXCEPT !.stage = "responded", !.method = method,
                                   !.url = url, !.status = 404]
    /\ UNCHANGED <<retries, hookEnabled, throwing, connected, webhookServer,
                   webhookUrl, bound, op, api, lifeEvents, clientApiKey,
                   clientProjectId, hooksSent, webhookPath, webhookSecret,
                   notes, srvVars>>

HookEnd_WaitsForApi ==
    /\ hook.stage = "receiving"
    /\ api.pc # "backoff"
    /\ LET h == handleWebhookEnd(hook.body, throwing)
       IN  hook' = [hook EXCEPT !.stage = "responded", !.events = h.events,
                                !.status = h.status, !.reply = h.body]
    /\ UNCHANGED <<retries, hookEnabled, throwing, connected, webhookServer,
                   webhookUrl, bound, op, api, lifeEvents, clientApiKey,
                   clientProjectId, hooksSent, webhookPath, webhookSecret,
                   notes, srvVars>>

\* req 'end': the body is complete
HookEnd ==
    /\ hook.stage = "receiving"
    /\ LET h == handleWebhookEnd(hook.body, throwing)
       IN  hook' = [hook EXCEPT !.stage = "responded", !.events = h.events,
                                !.status = h.status, !.reply = h.body]
    /\ UNCHANGED <<retries, hookEnabled, throwing, connected, webhookServer,
                   webhookUrl, bound, op, api, lifeEvents, clientApiKey,
                   clientProjectId, hooksSent, webhookPath, webhookSecret,
                   notes, srvVars>>

\* the response is on the wire; the next request can be taken up
HookDone ==
    /\ hook.stage = "responded"
    /\ hook' = NoHook
    /\ UNCHANGED <<retries, hookEnabled, throwing, connected, webhookServer,
                   webhookUrl, bound, op, api, lifeEvents, clientApiKey,
                   clientProjectId, hooksSent, webhookPath, webhookSecret,
                   notes, srvVars>>

\* the client's process holds no server
ServerParked ==
    /\ apiKey = <<>>
    /\ cfgProjectId = <<>>
    /\ currentProject = <<>>
    /\ constructed = FALSE
    /\ srvpc = "idle"
    /\ call = NoCall
    /\ remoteFails = 0
    /\ remoteBody = "json_data"
    /\ netlog = <<>>
    /\ handled = <<>>
    /\ response = NoResponse
    /\ reply = NoReply

\* the requests that reach the listener
Methods == {"POST", "GET"}
Urls == {WebhookPath, "/webhook?x=1", "/other"}

EventNames == {"noteCreated", "noteUpdated", "noteDeleted", "webhookReceived"}

\* the credential of the test client
TestApiKey == <<"hr", "-", "test", "-", "project", "-", "3saML26ipBq91vNz">>

\* the client after its constructor, with the listeners the application
\* registered on it.  The configurations: the test client's credential with
\* every retry and webhook setting and listeners that return; the same with
\* a listener that throws and no retries; the same with a webhook secret
\* configured; and every credential and explicit project with the webhook
\* receiver disabled.
ClientInit ==
    /\ \/ /\ clientApiKey = TestApiKey
          /\ clientProjectId = <<>>
          /\ retries \in 0..MaxRetries
          /\ hookEnabled \in BOOLEAN
          /\ throwing = {}
          /\ webhookSecret = Undefined
       \/ /\ clientApiKey = TestApiKey
          /\ clientProjectId = <<>>
          /\ retries = 0
          /\ hookEnabled = TRUE
          /\ throwing \in {{e} : e \in EventNames}
          /\ webhookSecret = Undefined
       \/ /\ clientApiKey = TestApiKey
          /\ clientProjectId = <<>>
          /\ retries = 0
          /\ hookEnabled = TRUE
          /\ throwing = {}
          /\ webhookSecret = "s3cret"
       \/ /\ clientApiKey \in ApiKeys
          /\ clientProjectId \in ProjectIds
          /\ retries = 0
          /\ hookEnabled = FALSE
          /\ throwing = {}
          /\ webhookSecret = Undefined
    /\ connected = FALSE
    /\ webhookServer = "null"
    /\ webhookUrl = 0
    /\ bound = 0
    /\ op = NoOp
    /\ api = IdleApi
    /\ lifeEvents = <<>>
    /\ hook = NoHook
    /\ hooksSent = {}
    /\ webhookPath = WebhookPath
    /\ notes = {}
    /\ ServerParked

ClientNext ==
    \/ \E k \in 0..(MaxRetries + 1) : AppRequest(k)
    \/ \E k \in 0..(MaxRetries + 1) : AppApiRequest(k)
    \/ \E k \in 0..(MaxRetries + 1) : Connect(k)
    \/ ConnectHealthSettled
    \/ \E k \in 0..(MaxRetries + 1) : ListenCallback(k)
    \/ ConnectRegisterSettled
    \/ \E k \in 0..(MaxRetries + 1) : Disconnect(k)
    \/ DisconnectUnregisterSettled
    \/ RequestSettles
    \/ OpReturns
    \/ ApiFetchSettles
    \/ RemoteNeverAnswers
    \/ ApiTimerFires
    \/ \E method \in Methods, url \in Urls :
         \E body \in (IF IsWebhookPost(method, url) THEN Bodies ELSE {Garbage}) :
            HookRequest(method, url, body)
    \/ HookEnd
    \/ HookDone

(***************************************************************************)
(* Specifications: the server alone, and the client alone.                 *)
(***************************************************************************)
ServerSpec == ServerInit /\ [][ServerNext]_vars

\* a settled fetch resumes its handler, and a reply the handler returned is
\* sent
ServerFairSpec ==
    /\ ServerSpec
    /\ WF_vars(FetchSettles)
    /\ WF_vars(HealthSettles)
    /\ WF_vars(SendResponse)

ClientSpec == ClientInit /\ [][ClientNext]_vars

\* the client with what its runtime guarantees: a fetch the remote API
\* answers settles, a timer that was set fires, the handling of a webhook
\* request goes on, and the application goes on after a call settled
ClientFairSpec ==
    /\ ClientSpec
    /\ WF_vars(ApiFetchSettles)
    /\ WF_vars(ApiTimerFires)
    /\ WF_vars(HookEnd)
    /\ WF_vars(HookDone)
    /\ WF_vars(OpReturns)
    /\ WF_vars(RequestSettles)
    /\ WF_vars(ConnectHealthSettled)
    /\ WF_vars(ConnectRegisterSettled)
    /\ WF_vars(DisconnectUnregisterSettled)
    /\ \A k \in 0..(MaxRetries + 1) : WF_vars(ListenCallback(k))

\* config.js, by option group, and the options the constructor is given:
\* a credential only, the webhook group of the README's example, a webhook
\* group that only disables the receiver, an http group with a timeout
\* only, and a logging group with a level only
Defaults ==
    [webhook |-> [enabled |-> TRUE, port |-> 0, path |-> WebhookPath],
     http |-> [timeout |-> 5000, retries |-> DefaultRetries,
               retryDelay |-> RetryDelay],
     logging |-> [level |-> "info", enabled |-> TRUE]]

Overrides ==
    << [apiKey |-> TestApiKey],
       [webhook |-> [enabled |-> TRUE, port |-> 3001]],
       [webhook |-> [enabled |-> FALSE]],
       [http |-> [timeout |-> 1000]],
       [logging |-> [level |-> "debug"]] >>

\* { ...config, ...options }: a group the options give replaces the
\* default group whole
MergeConfig(config, options) ==
    [g \in DOMAIN config |->
        IF g \in DOMAIN options THEN options[g] ELSE config[g]]

\* this.config.<group>.<key>; undef stands for undefined
Key(group, k, undef) == IF k \in DOMAIN group THEN group[k] ELSE undef

\* config.http.retries undefined: attempt <= undefined is false for every
\* attempt, as attempt <= -1 is
UndefinedRetries == -1

\* a client built with each of these options
ConfigInit ==
    /\ \E i \in 1..Len(Overrides) :
         LET c == MergeConfig(Defaults, Overrides[i])
         IN  /\ retries = Key(c["http"], "retries", UndefinedRetries)
             /\ hookEnabled = Key(c["webhook"], "enabled", FALSE)
             /\ webhookPath = Key(c["webhook"], "path", Undefined)
    /\ webhookSecret = Undefined
    /\ clientApiKey = TestApiKey
    /\ clientProjectId = <<>>
    /\ throwing = {}
    /\ connected = FALSE
    /\ webhookServer = "null"
    /\ webhookUrl = 0
    /\ bound = 0
    /\ op = NoOp
    /\ api = IdleApi
    /\ lifeEvents = <<>>
    /\ hook = NoHook
    /\ hooksSent = {}
    /\ notes = {}
    /\ ServerParked

ConfigNext ==
    \/ \E k \in 0..1 : AppRequest(k)
    \/ \E k \in 0..1 : Connect(k)
    \/ ConnectHealthSettled
    \/ \E k \in 0..1 : ListenCallback(k)
    \/ ConnectRegisterSettled
    \/ RequestSettles
    \/ OpReturns
    \/ ApiFetchSettles
    \/ ApiTimerFires
    \/ \E method \in Methods, url \in Urls :
         HookRequest(method, url, Text(JsonObject("created", "note")))
    \/ HookEnd
    \/ HookDone

ConfigSpec == ConfigInit /\ [][ConfigNext]_vars

\* a client built with a credential and an explicit project, whose retries
\* and webhook are off, that calls the note methods against a remote API
\* that stores notes
NotesInit ==
    /\ clientApiKey \in ApiKeys
    /\ clientProjectId \in ProjectIds
    /\ retries = 0
    /\ hookEnabled = FALSE
    /\ throwing = {}
    /\ connected = FALSE
    /\ webhookServer = "null"
    /\ webhookUrl = 0
    /\ bound = 0
    /\ op = NoOp
    /\ api = IdleApi
    /\ lifeEvents = <<>>
    /\ hook = NoHook
    /\ hooksSent = {}
    /\ webhookPath = WebhookPath
    /\ webhookSecret = Undefined
    /\ notes = {}
    /\ ServerParked

NotesNext ==
    \/ \E m \in NoteCalls, id \in 1..MaxNotes : NoteCall(m, id)
    \/ ApiFetchSettles
    \/ RequestSettles
    \/ OpReturns

NotesSpec == NotesInit /\ [][NotesNext]_vars

\* a server and a client, each built with a credential and an explicit
\* project of its own; the session's project is read, the client's is
\* resolved by each request
ProjectInit ==
    /\ apiKey \in ApiKeys
    /\ cfgProjectId \in ProjectIds
    /\ currentProject = ResolveProject(cfgProjectId, apiKey)
    /\ constructed = Truthy(currentProject)
    /\ srvpc = "idle"
    /\ call = NoCall
    /\ remoteFails = 0
    /\ remoteBody = "json_data"
    /\ netlog = <<>>
    /\ handled = <<>>
    /\ response = NoResponse
    /\ reply = NoReply
    /\ clientApiKey \in ApiKeys
    /\ clientProjectId \in ProjectIds
    /\ retries = 0
    /\ hookEnabled = FALSE
    /\ throwing = {}
    /\ connected = FALSE
    /\ webhookServer = "null"
    /\ webhookUrl = 0
    /\ bound = 0
    /\ op = NoOp
    /\ api = IdleApi
    /\ lifeEvents = <<>>
    /\ hook = NoHook
    /\ hooksSent = {}
    /\ webhookPath = WebhookPath
    /\ webhookSecret = Undefined
    /\ notes = {}

ProjectNext ==
    \/ ReadResource("knowledge://project/current")
    \/ SendResponse
    \/ \E k \in 0..1 : AppRequest(k)
    \/ ApiFetchSettles
    \/ RequestSettles
    \/ OpReturns

ProjectSpec == ProjectInit /\ [][ProjectNext]_vars

(***************************************************************************)
(* Claims about the server.  A CallTool has its response when srvpc is     *)
(* "done".                                                                 *)
(***************************************************************************)

Responded == srvpc = "done"
Fields(resp) == resp.text.fields
\* the response says the tool succeeded / failed
SaysSuccess(resp) ==
    ~resp.isError /\ "success" \in Fields(resp) /\ resp.text.success
\* the schema-required keys the request does not give
Missing(name, params) ==
    {k \in Range(SchemaRequired(name)) : ~params.defined \/ ~Given(params, k)}
\* every request of this CallTool was failed by the remote API
RemoteCallFailed == netlog # <<>> /\ call.fails >= Len(netlog)

\* C1: with credential employee-myproject-secret123 and no explicit
\* project, CallTool('get_note', {id}) against a remote API that answers
\* 2xx with a JSON body holding the note returns a success envelope: no
\* isError flag, success true, and the note as its data.
C1_GetNoteSuccessEnvelope ==
    ( /\ Responded
      /\ apiKey = <<"employee", "-", "myproject", "-", "secret123">>
      /\ cfgProjectId = <<>>
      /\ call.name = "get_note"
      /\ call.params = WithArgs([id |-> "v"])
      /\ call.fails = 0
      /\ remoteBody = "json_data" )
    => ( /\ SaysSuccess(response)
         /\ "data" \in Fields(response)
         /\ response.text.data = DataOf("json_data") )

\* C2: whenever a tool invocation fails, because a required argument is
\* missing or because the remote call fails, the CallTool response carries
\* isError true and a body with the fields error, tool and timestamp.
C2_FailureCarriesIsError ==
    ( /\ Responded
      /\ handled # <<>>
      /\ call.params.defined
      /\ ~SaysSuccess(response)
      /\ Missing(call.name, call.params) # {} \/ RemoteCallFailed )
    => ( /\ response.isError
         /\ {"error", "tool", "timestamp"} \subseteq Fields(response) )

\* C3: for a tool name no handler owns, CallTool returns an envelope with
\* isError true whose body names exactly that tool; no handleTool ran and
\* no request was made.
C3_UnknownToolEnvelope ==
    (Responded /\ ~HasOwner(call.name))
    => ( /\ response.isError
         /\ "tool" \in Fields(response)
         /\ response.text.tool = call.name
         /\ "error" \in Fields(response)
         /\ response.text.error = Err("Unknown tool", {call.name})
         /\ handled = <<>>
         /\ netlog = <<>> )

C3_Witness ==
    /\ Responded
    /\ call.name = "frobnicate"
    /\ call.params.defined
    /\ response.isError

\* the tool would return a success result, had the remote API answered the
\* request it awaits with its 2xx body
SucceedsOn2xx(c) ==
    LET step == handleTool(c.handler, c.name, c.params, currentProject,
                           "result", HandlerApiResult("none", remoteBody))
    IN  step.k = "ret" /\ step.result.success

\* C5: a provider's outbound call goes through the bounded-retry policy: if
\* the remote endpoint fails the first attempt and would succeed on a later
\* one within the retry limit, the tool invocation returns a success result.
C5_ProviderCallIsRetried ==
    ( /\ Responded
      /\ handled # <<>>
      /\ netlog # <<>>
      /\ call.fails \in 1..DefaultRetries
      /\ SucceedsOn2xx(call) )
    => SaysSuccess(response)

\* C6: an invocation of a tool whose schema declares required keys, with a
\* required key absent or undefined, issues no request and fails with an
\* error message that names every missing key.
C6_MissingKeysNamedNoRequest ==
    ( /\ srvpc \in {"fetch", "done"}
      /\ handled # <<>>
      /\ Missing(call.name, call.params) # {} )
    => ( /\ netlog = <<>>
         /\ Responded
         /\ ~SaysSuccess(response)
         /\ "error" \in Fields(response)
         /\ Missing(call.name, call.params) \subseteq response.text.error.detail )

\* C7: handleTool never rejects: every failure is returned as the value
\* {success:false, error, tool, timestamp} with tool the invoked name.  (A
\* rejection is what the router's catch turns into an isError envelope.)
C7_HandleToolNeverRejects ==
    (Responded /\ handled # <<>>)
    => ( /\ ~response.isError
         /\ \/ response.text.success
            \/ /\ Fields(response) = {"success", "error", "tool", "timestamp"}
               /\ response.text.tool = call.name )

(***************************************************************************)
(* Claims about the client.  An apiRequest is settled when it returned or  *)
(* threw; a webhook request is answered when hook.stage is "responded".    *)
(***************************************************************************)
\* a POST to the configured webhook path has its answer
WebhookAnswered ==
    hook.stage = "responded" /\ hook.method = "POST" /\ hook.url = WebhookPath

DomainEventNames == {"noteCreated", "noteUpdated", "noteDeleted"}

\* C4: apiRequest with retries = R against an endpoint that fails its first
\* k attempts: if k <= R it returns after exactly k + 1 attempts; if k > R
\* it makes exactly R + 1 attempts and throws.  A rejected fetch and a
\* non-2xx response count alike, and never more than R + 1 attempts are
\* made.
C4_BoundedRetry ==
    /\ api.fetches <= retries + 1
    /\ ApiSettled =>
         IF api.fails <= retries
         THEN api.pc = "returned" /\ api.fetches = api.fails + 1
         ELSE api.pc = "threw" /\ api.fetches = retries + 1

C4_Witness ==
    /\ api.pc = "returned"
    /\ api.fails = 2
    /\ retries = 2
    /\ api.fetches = 3
    /\ api.waits = <<RetryDelay, RetryDelay * 2>>

\* C8: a POST to the webhook path with a JSON body whose event is created,
\* updated or deleted emits exactly two events, the domain event of that
\* kind with the envelope's data and then webhookReceived with the whole
\* envelope, and is answered 200 {success:true}; no POST emits more than
\* one domain event.
C8_TwoEventsThen200 ==
    /\ WebhookAnswered =>
         Cardinality({i \in 1..Len(hook.events) :
                        hook.events[i].name \in DomainEventNames}) <= 1
    /\ ( /\ WebhookAnswered
         /\ hook.body.wellFormed
         /\ hook.body.value.kind = "object"
         /\ hook.body.value.event \in RecognizedEvents )
       => ( /\ hook.events =
                 << Event(DomainEvent(hook.body.value.event),
                          hook.body.value.data, NoValue),
                    Event("webhookReceived", Undefined, hook.body.value) >>
            /\ hook.status = 200
            /\ hook.reply = "success" )

\* C9: a POST to the webhook path whose body is not parseable JSON emits no
\* event at all and is answered 400.
C9_UnparseableBody400 ==
    (WebhookAnswered /\ ~hook.body.wellFormed)
    => (hook.events = <<>> /\ hook.status = 400)

C9_Witness ==
    /\ WebhookAnswered
    /\ hook.body = Garbage
    /\ hook.status = 400

\* C10: a POST to the webhook path with a JSON body whose event is not
\* created, updated or deleted is answered with a 4xx status and emits no
\* domain event; only webhookReceived may be emitted.
C10_UnrecognisedEvent4xx ==
    ( /\ WebhookAnswered
      /\ hook.body.wellFormed
      /\ hook.body.value.event \notin RecognizedEvents )
    => ( /\ hook.status \in 400..499
         /\ \A i \in 1..Len(hook.events) :
              hook.events[i].name = "webhookReceived" )

\* C11: a request to the webhook listener that is not a POST to exactly the
\* configured path is never handed to handleWebhook, is answered 404 and
\* emits no event.
C11_OtherRequests404 ==
    /\ hook.stage = "receiving" => (hook.method = "POST" /\ hook.url = WebhookPath)
    /\ (hook.stage = "responded" /\ ~(hook.method = "POST" /\ hook.url = WebhookPath))
       => (hook.status = 404 /\ hook.events = <<>> /\ hook.reply = "")

C11_Witness ==
    /\ hook.stage = "responded"
    /\ hook.method = "GET"
    /\ hook.url = WebhookPath
    /\ hook.status = 404

\* the sum of a sequence of numbers
RECURSIVE SumOf(_)
SumOf(w) == IF w = <<>> THEN 0 ELSE w[1] + SumOf(Tail(w))

\* C12: in the client's apiRequest the wait before the n-th retry is exactly
\* retryDelay * n for n = 1..retries, no wait follows the attempt that
\* exhausts the retries, and a call that exhausts R retries has waited
\* retryDelay * R * (R + 1) / 2 in all.
C12_LinearBackoff ==
    api.pc # "idle" =>
      /\ Len(api.waits) <= retries
      /\ \A n \in 1..Len(api.waits) : api.waits[n] = RetryDelay * n
      /\ api.pc = "backoff" => Len(api.waits) = api.attempt
      /\ api.pc = "fetch" => Len(api.waits) = api.fetches - 1
      /\ api.pc = "threw" =>
           /\ Len(api.waits) = retries
           /\ 2 * SumOf(api.waits) = RetryDelay * retries * (retries + 1)

C12_Witness ==
    /\ api.pc = "threw"
    /\ retries = 2
    /\ api.waits = <<RetryDelay, 2 * RetryDelay>>
    /\ SumOf(api.waits) = 3 * RetryDelay

\* C13: an attempt the remote API never answers is aborted by the
\* configured timeout and counted as a failed attempt, so every call of the
\* client's apiRequest eventually returns or throws.
C13_EveryCallSettles == (api.pc \in {"fetch", "pending", "backoff"}) ~> ApiSettled

\* the part of a credential strictly between its first and its last dash
BetweenDashes(key) == SubSeq(key, IndexOfDash(key) + 1, LastIndexOfDash(key) - 1)
HasNoDash(key) == \A j \in 1..Len(key) : key[j] # Dash

\* C14: with no explicit project, for a credential of at least three
\* dash-delimited segments the resolved project is the part strictly between
\* the first and the last dash, for the server's session project and for the
\* client's getProjectFromApiKey() alike.
C14_ProjectBetweenDashes ==
    /\ (constructed /\ cfgProjectId = <<>> /\ Len(SplitDash(apiKey)) >= 3)
       => currentProject = BetweenDashes(apiKey)
    /\ ( /\ op.kind = "request"
         /\ clientProjectId = <<>>
         /\ Len(SplitDash(clientApiKey)) >= 3 )
       => (op.pc # "rejected" /\ op.project = BetweenDashes(clientApiKey))

\* C15: with no explicit project and a credential without a dash, identity
\* resolution fails with an error: the server's constructor throws and the
\* client's project resolution throws; no project identifier results.
C15_NoDashFails ==
    /\ (cfgProjectId = <<>> /\ HasNoDash(apiKey)) => ~constructed
    /\ ( /\ op.kind = "request"
         /\ clientProjectId = <<>>
         /\ HasNoDash(clientApiKey) )
       => (op.pc = "rejected" /\ op.project = <<>>)

\* the webhook receiver is stopped: never started, or closed
ReceiverStopped == webhookServer \in {"null", "closed"}

\* C16: disconnect() on a client whose webhook receiver is already stopped
\* (a second disconnect(), or one before any connect()) is a no-op: it does
\* not close the listener again and sends no unregister request.
C16_DisconnectWhenStoppedIsNoOp ==
    [][ (op = NoOp /\ op'.kind = "disconnect" /\ ReceiverStopped)
        => (~op'.closeCalled /\ api'.pc = "idle" /\ hooksSent' = hooksSent) ]_vars

\* C17: over any sequence of connect() and disconnect() calls the receiver
\* only moves Stopped -> Starting -> Listening -> Stopped: a listener is
\* started only when none is listening, at most one listener of the client
\* is bound at any time, and a disconnect() closes every bound listener.
C17_ReceiverStateMachine ==
    /\ bound <= 1
    /\ webhookServer = "starting" => bound = 0
    /\ op.kind = "disconnect" => bound = 0

\* C18: with webhook mode enabled, once disconnect() has completed every
\* callback URL sent in a register request (POST /api/webhooks) has also
\* been sent in an unregister request (DELETE /api/webhooks); with webhook
\* mode disabled no register or unregister request is ever sent and no
\* listener is bound.
C18_RegisteredThenUnregistered ==
    /\ (hookEnabled /\ op.kind = "disconnect" /\ op.pc = "resolved")
       => \A r \in hooksSent :
             r[1] = "POST" => <<"DELETE", r[2]>> \in hooksSent
    /\ ~hookEnabled
       => (hooksSent = {} /\ bound = 0 /\ webhookServer = "null"
           /\ api.endpoint # "/api/webhooks")

\* connect() has resolved after its register request failed
RegisterFailed ==
    /\ op.kind = "connect"
    /\ op.pc \in {"resolved", "rejected"}
    /\ api.endpoint = "/api/webhooks"
    /\ api.pc = "threw"

\* C19: if the register request fails after its retries, connect() still
\* resolves: connected is true, 'connected' is emitted and 'error' is not,
\* and webhookUrl still holds the listener's URL.
C19_RegisterFailureTolerated ==
    RegisterFailed
    => ( /\ op.pc = "resolved"
         /\ connected
         /\ lifeEvents = <<"connected">>
         /\ webhookUrl # 0
         /\ <<"POST", webhookUrl>> \in hooksSent
         /\ webhookServer = "listening" )

C19_Witness ==
    /\ RegisterFailed
    /\ retries = 2
    /\ api.fetches = 3
    /\ connected

\* the authentication header and the client-identifier header
IdentityHeaders == {"X-API-Key", "User-Agent"}

\* C20: every outbound request to the remote API, from a provider's
\* apiRequest, from the client's apiRequest whatever options the caller
\* passes, and from the health probe, carries both X-API-Key and User-Agent.
C20_IdentityHeadersOnEveryRequest ==
    /\ \A i \in 1..Len(netlog) : IdentityHeaders \subseteq netlog[i].headers
    /\ api.pc # "idle" => IdentityHeaders \subseteq api.headers
    /\ IdentityHeaders \subseteq getSystemHealthHeaders

(***************************************************************************)
(* Claims about response parsing, the resources and the tool list.         *)
(***************************************************************************)
\* the provider's apiRequest got a 2xx response of kind remoteBody for the
\* single request of this CallTool; the client's request got a response
ProviderGot2xx ==
    /\ srvpc = "done"
    /\ Len(netlog) = 1
    /\ call.fails = 0
ClientGot2xx ==
    /\ op.kind = "request"
    /\ op.pc = "settled"
    /\ op.body # ""

\* what the parse of a 2xx response has to give: the parsed value of a JSON
\* body, the raw text of a body that is not declared JSON, and an error
\* that includes the raw text of a JSON body that does not parse
ParsedAsSpecified(body, ok, value, errorDetail) ==
    CASE body \in {"json_data", "json_list", "json_nodata"}
           -> ok /\ value = body
      [] body = "text" -> ok /\ value = body
      [] OTHER -> ~ok /\ body \in errorDetail

\* C21: a 2xx response with a JSON content type and a body that parses
\* gives the parsed value, one with another content type gives the raw
\* text, and one with a JSON content type and a body that does not parse
\* fails with an error that includes the raw body text; on the provider's
\* request path and in the client's parseJsonResponse alike.
C21_ResponseParsing ==
    /\ ProviderGot2xx
       => LET res == HandlerApiResult("none", remoteBody)
          IN  ParsedAsSpecified(remoteBody, res.ok, res.body, res.err.detail)
    /\ ClientGot2xx
       => ParsedAsSpecified(op.body, op.parsed.ok, op.parsed.value,
                            op.parsed.detail)

\* a ReadResource, a ListTools request has its reply
ReadReplied == srvpc = "replied" /\ reply.req = "ReadResource"
ListReplied == srvpc = "replied" /\ reply.req = "ListTools"

HealthUri == "knowledge://system/health"

\* C22: ReadResource returns JSON text content exactly for the three uris
\* ListResources returns; every other uri fails, with an error that names
\* the uri.
C22_ReadResourceKnownUris ==
    ReadReplied
    => IF reply.uri \in Range(ResourceUris)
       THEN reply.ok /\ reply.text.kind \in {"project", "health", "info"}
       ELSE ~reply.ok /\ reply.text = NoText /\ reply.uri \in reply.error.detail

C22_Witness ==
    /\ ReadReplied
    /\ reply.uri = "knowledge://system/health/"
    /\ ~reply.ok

\* C23: reading knowledge://system/health never fails: the reply is built
\* from one probe of /health, its status is 'healthy' exactly when the
\* probe got a 2xx response, and 'degraded' with api.accessible false when
\* it got another status or a network error.
C23_HealthNeverFails ==
    (ReadReplied /\ reply.uri = HealthUri)
    => ( /\ reply.ok
         /\ reply.probes = 1
         /\ reply.text.kind = "health"
         /\ reply.text.status = "healthy" <=> reply.outcome = "2xx"
         /\ reply.text.status \in {"healthy", "degraded"}
         /\ reply.text.status = "degraded" => ~reply.text.accessible )

C23_Witness ==
    /\ ReadReplied
    /\ reply.uri = HealthUri
    /\ reply.outcome = "network"
    /\ reply.text.status = "degraded"

\* the positions of a name in a list
Positions(list, name) == {i \in 1..Len(list) : list[i] = name}

\* C24: the list ListTools returns has no tool name twice: no provider's
\* list repeats a name and no two providers list the same name.
C24_NoDuplicateTool ==
    ListReplied
    => ( /\ \A name \in Range(reply.tools) :
               Cardinality(Positions(reply.tools, name)) = 1
         /\ \A i, j \in 1..Len(Handlers) :
               i # j => Range(getTools(Handlers[i]))
                          \cap Range(getTools(Handlers[j])) = {}
         /\ \A i \in 1..Len(Handlers) :
               Cardinality(Range(getTools(Handlers[i])))
                 = Len(getTools(Handlers[i])) )

C24_Witness ==
    /\ ListReplied
    /\ reply.ok
    /\ Len(reply.tools) = 26

\* C25: when the tool enumeration of one provider throws, ListTools does
\* not throw: it returns an empty list.
C25_ListToolsFailsClosed ==
    (ListReplied /\ reply.thrower # "none")
    => (reply.ok /\ reply.tools = <<>>)

\* the promise of the handleTool call the router awaited rejected
InvocationRejected ==
    /\ handled # <<>>
    /\ handleTool(call.handler, call.name, call.params, currentProject,
                  "start", Ok(Undefined)).k \in {"reject", "throw"}

\* C26: for a CallTool the router invokes handleTool on at most one
\* provider and at most once, the first provider in registration order that
\* owns the tool; when that invocation rejects the router invokes nothing
\* again and answers with an envelope whose isError is true.
C26_OneInvocationPerCall ==
    /\ Len(handled) <= 1
    /\ handled # <<>>
       => ( /\ HasOwner(call.name)
            /\ handled[1] = Owner(call.name)
            /\ \A i \in 1..Len(Handlers) :
                 canHandleTool(Handlers[i], call.name)
                   => \E j \in 1..i : Handlers[j] = handled[1] )
    /\ (srvpc = "done" /\ InvocationRejected)
       => (response.isError /\ Len(handled) = 1 /\ netlog = <<>>)

C26_Witness ==
    /\ srvpc = "done"
    /\ InvocationRejected
    /\ handled = <<"crossReference">>
    /\ response.isError

\* C27: every CallTool the router dispatched to a provider eventually has
\* its response envelope, also when the remote API never answers the
\* provider's request.
C27_EveryCallToolAnswered == (srvpc = "fetch") ~> (srvpc = "done")

(***************************************************************************)
(* Claims about what runs while a call waits, and about what requests      *)
(* leave alone.                                                            *)
(***************************************************************************)
\* C28: while an apiRequest waits in its retry backoff, a webhook POST that
\* arrives is handled to its end (events emitted, response sent) without
\* waiting for that apiRequest, and handling it changes neither the
\* attempt count nor the outcome of the pending call.
C28_WebhookDuringBackoff ==
    /\ [](api.pc = "backoff"
            => ( /\ (bound > 0 /\ hook.stage = "idle")
                      => ENABLED HookRequest("POST", WebhookPath,
                                             Text(JsonObject("created", "note")))
                 /\ hook.stage = "receiving" => ENABLED HookEnd
                 /\ hook.stage = "responded" => ENABLED HookDone ))
    /\ [][hook' # hook => (api' = api /\ op' = op)]_vars

C28_Witness ==
    /\ api.pc = "backoff"
    /\ api.attempt = 1
    /\ hook.inBackoff
    /\ hook.stage = "responded"
    /\ hook.status = 200
    /\ hook.events # <<>>

\* C29: no sequence of ListTools, CallTool and ReadResource requests
\* changes what the providers were constructed with (credential,
\* configuration, tool names) or the session's project: they keep the
\* values of the construction.
C29_RequestsLeaveProvidersAlone ==
    [][ /\ apiKey' = apiKey
        /\ cfgProjectId' = cfgProjectId
        /\ constructed' = constructed
        /\ currentProject' = currentProject
        /\ currentProject' = ResolveProject(cfgProjectId, apiKey)
        /\ (srvpc' = "replied" /\ reply'.req = "ListTools" /\ reply'.ok)
             => reply'.tools = PushTools(1) ]_vars

C29_Witness ==
    /\ srvpc = "done"
    /\ call.name = "get_note"
    /\ Get(call.params, "projectId") = "other"
    /\ netlog # <<>>
    /\ currentProject = <<"myproject">>

\* C30: when an explicit project is configured, the resolved project is
\* that project whatever the credential is (well-formed, malformed or
\* absent), in the server and in the client; the credential is taken apart
\* only when no explicit project is configured.
C30_ExplicitProjectPreferred ==
    /\ Truthy(cfgProjectId)
       => ( /\ constructed
            /\ currentProject = cfgProjectId
            /\ ReadReplied => reply.text.project = cfgProjectId )
    /\ (~Truthy(cfgProjectId) /\ constructed)
       => currentProject = extractProjectFromApiKey(apiKey)
    /\ (Truthy(clientProjectId) /\ op.kind = "request")
       => (op.pc # "rejected" /\ op.project = clientProjectId)

C30_Witness ==
    /\ cfgProjectId = <<"explicit">>
    /\ apiKey = <<"nodash">>
    /\ ReadReplied
    /\ reply.text.project = <<"explicit">>
    /\ clientProjectId = <<"explicit">>
    /\ clientApiKey = <<>>
    /\ op.kind = "request"
    /\ op.pc = "settled"

(***************************************************************************)
(* Claims about the client's note methods.                                 *)
(***************************************************************************)
\* the remote API holds a note of the id the call in progress names
HoldsNoteOfCall == \E n \in notes : n[2] = op.id

\* C31: on one client and without projectId arguments, createNote, getNote,
\* listNotes, search and deleteNote address one project path: every note
\* the client created is in the project of each later call, getNote of a
\* created note finds it, and deleteNote of it removes it.
C31_NoteMethodsShareProject ==
    /\ []( /\ \A n, m \in notes : n[1] = m[1]
           /\ (op.kind = "request" /\ op.pc \in {"await", "settled"})
                => \A n \in notes : n[1] = op.project
           /\ ( /\ op.kind = "request"
                /\ op.call = "getNote"
                /\ ApiSettled
                /\ HoldsNoteOfCall )
                => api.pc = "returned" )
    /\ [][ ( /\ op.kind = "request"
             /\ op.call = "deleteNote"
             /\ api.pc = "fetch"
             /\ api'.pc # "fetch"
             /\ HoldsNoteOfCall )
           => \A n \in notes' : n[2] # op.id ]_vars

C31_Witness ==
    /\ clientApiKey = TestApiKey
    /\ op.kind = "request"
    /\ op.call = "getNote"
    /\ op.pc = "settled"
    /\ op.project = <<"test", "-", "project">>
    /\ <<op.project, op.id>> \in notes
    /\ op.result.ok

(***************************************************************************)
(* Claims about the note and search tools of the server.                   *)
(***************************************************************************)
MutatingTools == {"create_note", "update_note", "delete_note"}
MutatingMethods == {"POST", "PATCH", "PUT", "DELETE"}

\* the remote API answered a mutating request of this CallTool with 2xx:
\* it fails the first call.fails requests and accepts the others
MutationAccepted ==
    \E i \in 1..Len(netlog) :
        i > call.fails /\ netlog[i].method \in MutatingMethods

\* C32: for create_note, update_note and delete_note, a mutation the remote
\* API accepted with a 2xx response is reported as success:true; a result
\* that reports success:false means no mutating request was accepted.
C32_AcceptedMutationReported ==
    (Responded /\ call.name \in MutatingTools /\ MutationAccepted)
    => SaysSuccess(response)

\* the update fields an update_note request supplies
UpdateFields == {"old_str", "new_str", "title", "tags", "virtual_folder"}
Supplied == {k \in UpdateFields : Given(call.params, k)}

\* C38: an update_note invocation issues at most one request, every update
\* field the caller supplied is in that request's body, and an invocation
\* that supplies none issues no request and fails.
C38_UpdateTransmitsSuppliedFields ==
    (Responded /\ call.name = "update_note")
    => ( /\ Len(netlog) <= 1
         /\ netlog # <<>> => Supplied \subseteq netlog[1].body
         /\ Supplied = {} => (netlog = <<>> /\ ~SaysSuccess(response)) )

\* C39: listing and dispatch agree: every name ListTools returns is owned
\* by exactly the provider that lists it, every name a provider owns is
\* listed, and a CallTool for a listed name reaches the provider that lists
\* it, whose handleTool does not answer 'Unknown tool'.
C39_ListingAndDispatchAgree ==
    /\ (ListReplied /\ reply.ok)
       => ( /\ \A name \in Range(reply.tools) :
                 \A i \in 1..Len(Handlers) :
                    canHandleTool(Handlers[i], name)
                      <=> name \in Range(getTools(Handlers[i]))
            /\ \A i \in 1..Len(Handlers) :
                 Range(ToolsOf(Handlers[i])) \subseteq Range(reply.tools) )
    /\ (Responded /\ call.name \in Range(PushTools(1)))
       => ( /\ handled # <<>>
            /\ call.name \in Range(getTools(handled[1]))
            /\ response.text.error.msg # "Unknown tool" )

C39_Witness ==
    /\ Responded
    /\ call.name = "get_knowledge_base_health"
    /\ handled = <<"crossReference">>
    /\ response.text.error.msg # "Unknown tool"

\* params.mode || 'keyword' of the request
ModeOf(params) == IF Given(params, "mode") THEN Get(params, "mode") ELSE "keyword"

\* C40: one search invocation issues at most 2 requests, and only a hybrid
\* search issues a second one; a semantic search whose request failed
\* succeeds only with an empty result; one graph_search invocation issues at
\* most 2 requests, a graph request and then at most one keyword search.
C40_SearchFallbacksTerminate ==
    (call.name \in {"search", "graph_search"})
    => ( /\ Len(netlog) <= 2
         /\ (call.name = "search" /\ ModeOf(call.params) # "hybrid")
            => Len(netlog) <= 1
         /\ (Responded /\ call.name = "search" /\ call.fails >= 1
               /\ ModeOf(call.params) = "semantic" /\ SaysSuccess(response))
            => (Len(netlog) = 1 /\ response.text.data = "no-results")
         /\ (call.name = "graph_search" /\ netlog # <<>>)
            => netlog[1].path = "/search/graph"
         /\ Len(netlog) = 2 => netlog[2].path = "/notes/search" )

C40_Witness ==
    /\ Responded
    /\ call.name = "search"
    /\ ModeOf(call.params) = "hybrid"
    /\ Len(netlog) = 2

(***************************************************************************)
(* Claims about the client's configuration, its webhook receiver and       *)
(* connect().                                                              *)
(***************************************************************************)
\* C33: a client built with options that give only some keys of an option
\* group keeps the default of every key the options do not give: when its
\* listener takes a request the path it compares with is '/webhook', so a
\* POST to '/webhook' is not answered 404, and when it makes an apiRequest
\* the retry limit is the default, so the call makes at least one attempt.
C33_PartialGroupKeepsDefaults ==
    /\ hook.stage # "idle" => webhookPath = WebhookPath
    /\ (hook.stage = "responded" /\ hook.method = "POST"
          /\ hook.url = WebhookPath)
       => hook.status # 404
    /\ api.pc # "idle" => retries = DefaultRetries
    /\ ApiSettled => api.fetches >= 1

\* the webhook receiver answered a POST to its path
PostAnswered ==
    hook.stage = "responded" /\ hook.method = "POST" /\ hook.url = webhookPath

\* C34: a webhook POST is answered 400 only if no event was emitted for it:
\* once an event of the POST was delivered to listeners, also to one that
\* throws, the POST is not answered 400 and webhookReceived, the last event
\* of a POST, is emitted as well.
C34_No400AfterEmission ==
    (PostAnswered /\ hook.events # <<>>)
    => ( /\ hook.status # 400
         /\ hook.events[Len(hook.events)].name = "webhookReceived" )

\* disconnect() has completed on a client none of whose listeners is bound
DisconnectCompleted ==
    /\ ~connected
    /\ webhookServer = "closed"
    /\ bound = 0
    /\ ~(op.kind = "disconnect" /\ op.pc = "unregister")

\* C35: after disconnect() has completed and 'disconnected' was emitted the
\* client emits no noteCreated, noteUpdated, noteDeleted or webhookReceived
\* event, also not for a POST whose body was being received when
\* disconnect() was called.
C35_NoEventAfterDisconnect ==
    [][ DisconnectCompleted
        => (hook'.events = hook.events \/ hook'.events = <<>>) ]_vars

\* C36: with a webhook secret configured, a POST to the webhook path that
\* does not prove knowledge of the secret emits no event.
C36_UnverifiedPostEmitsNothing ==
    (webhookSecret # Undefined /\ PostAnswered /\ ~hook.signed)
    => hook.events = <<>>

\* C37: whenever connect() rejects, the client is not connected and holds no
\* bound webhook listener, no register request was sent, webhookUrl is still
\* null, and exactly one 'error' event and no 'connected' event was emitted.
ConnectRejected == op.kind = "connect" /\ op.pc = "rejected"

C37_RejectedConnectLeavesNothing ==
    ConnectRejected
    => ( /\ ~connected
         /\ bound = 0
         /\ webhookUrl = 0
         /\ \A h \in hooksSent : h[1] # "POST"
         /\ lifeEvents = <<"error">> )

=============================================================================
